---- MODULE Spec2Model ----
(***************************************************************************)
(* Model of the wallet / inventory / payment core of the shop bot:         *)
(*   - cb_confirm and purchase_transaction (bot.py): a MongoDB             *)
(*     multi-document transaction (snapshot reads, first-writer-wins write *)
(*     conflicts, atomic commit) and the low-stock alert that follows it;  *)
(*   - handle_oxapay_payment, oxapay_webhook, handle_oxapay_expiry,        *)
(*     cb_cancel_oxapay, cb_admin_pay_action, cb_admin_user_action,        *)
(*     on_text (admin_user_balance) (bot.py);                              *)
(*   - handle_payment_captured, handle_qr_payment_success,                 *)
(*     verify_webhook_signature (razorpay_webhook.py);                     *)
(*   - best_discount_percent and the pricing of cb_confirm, the flow state *)
(*     of users and the admin handlers that start and advance flows;       *)
(*   - on_text in flow await_amount (parsing of the amount, the manual     *)
(*     methods), on_photo, the product edit / add steps of on_text;        *)
(*   - handle_razorpay_payment, handle_razorpay_expiry, cb_cancel_razorpay *)
(*     and the RAZORPAY_STATE entry of the pending UPI QR code.            *)
(* Every `await` on the store is a scheduling point: a handler is split    *)
(* into one action per store operation, so that coroutines interleave as   *)
(* the asyncio event loop lets them.                                       *)
(* Money (balance_inr, an Order's total) is a float in the code; here it   *)
(* is an exact number of hundredths of a credit, so that a percentage of a *)
(* whole price is computed exactly.                                        *)
(***************************************************************************)
EXTENDS Integers, Sequences, FiniteSets, TLC

\* ------------------------------------------------------------------ bounds
NUsers == 2
NStock == 3
NTx == 2
MaxQty == 2
UnitPrice == 4
StartBalance == 9
NHook == 2
MaxWebhookAmount == 2
NRzp == 2
AmountUsd == 1
AmountPaise == 250
MaxAdjust == 10
NPolls == 1
MaxInserts == 1
NMsg == 2

\* config.USD_TO_INR_RATE
USD_TO_INR_RATE == 90

\* the 100.0 of a percentage (cb_confirm); money is counted in 1/Hundred credit
Hundred == 100

\* the low-stock alert is sent when at most this many items are available
LowStock == 3

Users == 1..NUsers
StockIds == 1..NStock
Txs == 1..NTx
Hooks == 1..NHook
RzpHooks == 1..NRzp
Msgs == 1..NMsg

None == "none"

VARIABLES
    balance,    \* users.balance_inr, per user id
    banned,     \* users.banned, per user id
    stocks,     \* stocks collection of the product, in insertion (created_at) order
    orders,     \* orders collection, in insertion order
    tx,         \* one record per purchase_transaction call (session + transaction)
    payments,   \* payments collection, in insertion order
    hook,       \* one record per delivery to /oxapay/webhook
    rzp,        \* one record per delivery to /razorpay/webhook
    expiry,     \* the handle_oxapay_expiry task of the OxaPay payment (edits, deleted: its
                \* countdown edits and its deletion of the payment message)
    cancel,     \* the cb_cancel_oxapay callback of the OxaPay payment
    review,     \* the cb_admin_pay_action callback
    adjust,     \* the on_text handler of an admin in flow admin_user_balance
    credits,    \* history: number of balance increments applied per provider reference
    sent,       \* history: messages sent to the payer about the OxaPay payment, per kind
    flow,       \* users.flow, per user id
    discounts,  \* the discounts document of the product (its rules), or NoDiscountDoc
    razorpay_state, \* RAZORPAY_STATE: the pending UPI QR request per user id
    secret,     \* config.RAZORPAY_WEBHOOK_SECRET
    funding,    \* one record per amount message handled by on_text in flow await_amount
    products,   \* products collection, in insertion order; the first is the product sold
    step,       \* the on_text / on_photo handler of a flow step (proof, product edit / add)
    qr          \* per UPI QR code: its message and its handle_razorpay_expiry task

vars == <<balance, banned, stocks, orders, tx, payments, hook, rzp, expiry, cancel, review, adjust, credits,
          sent, flow, discounts, razorpay_state, secret, funding, products, step, qr>>

restVars == <<sent, flow, discounts, razorpay_state, secret, funding, products, step, qr>>

purchaseVars == <<stocks, orders, tx>>
paymentVars == <<payments, hook, rzp, expiry, cancel, review, adjust, credits>>

\* ------------------------------------------------------------------ helpers
RECURSIVE SumQty(_)
SumQty(os) == IF os = <<>> THEN 0 ELSE Head(os).qty + SumQty(Tail(os))

RECURSIVE SeqToSet(_)
SeqToSet(s) == IF s = <<>> THEN {} ELSE {Head(s)} \cup SeqToSet(Tail(s))

Max(a, b) == IF a >= b THEN a ELSE b
Min(a, b) == IF a <= b THEN a ELSE b

\* the items a count_documents / find with {"status": "available"} matches
Available(st) == {i \in DOMAIN st : st[i].status = "available"}

\* the items of a set, in ascending order
RECURSIVE SetToSeq(_)
SetToSeq(S) ==
    IF S = {} THEN <<>>
    ELSE LET m == CHOOSE x \in S : \A y \in S : x <= y
         IN <<m>> \o SetToSeq(S \ {m})

\* cursor of m.stocks.find({"status": "available"}).limit(qty).to_list: the
\* call names no sort, so the store may return any qty of the matching items
\* (all of them when fewer match)
find_results(st, qty) ==
    {SetToSeq(S) : S \in {T \in SUBSET Available(st) :
                             Cardinality(T) = Min(qty, Cardinality(Available(st)))}}

\* ------------------------------------------------------------------ pricing
\* no document in m.discounts for the product
NoDiscountDoc == [exists |-> FALSE, rules |-> <<>>]

\* best = max(best, percent), for a rule that applies
better_latest(best, percent) == percent
better(best, percent) == Max(best, percent)

\* the loop of best_discount_percent over doc["rules"], in stored order
RECURSIVE best_over(_, _, _)
best_over(rules, qty, best) ==
    IF rules = <<>> THEN best
    ELSE best_over(Tail(rules), qty,
                   IF qty >= Head(rules).min_qty
                   THEN better(best, Head(rules).percent) ELSE best)

best_discount_percent(doc, qty) ==
    IF ~doc.exists THEN 0 ELSE best_over(doc.rules, qty, 0)

\* cb_confirm lines 1515-1525: unit = prod.get("price_usd", ...); subtotal = unit * qty;
\* discount = subtotal * (percent / 100.0); total = subtotal - discount,
\* in hundredths of a credit
cart_total_undiscounted(qty, percent) == products[1].price_usd * qty * Hundred
cart_total(qty, percent) ==
    products[1].price_usd * qty * Hundred - products[1].price_usd * qty * percent

IdleTx == [pc |-> "idle", user_id |-> 0, qty |-> 0, percent |-> 0, total |-> 0, seen |-> 0,
           found |-> <<>>, dirty |-> FALSE, alert |-> None]

\* a transaction holds its written documents until it commits or aborts
StockLockedByNone(t) == {}
StockLockedBy(t) == IF tx[t].pc \in {"debit", "commit"} THEN SeqToSet(tx[t].found) ELSE {}
UserLockedBy(t) == IF tx[t].pc = "commit" THEN {tx[t].user_id} ELSE {}
UserLocked(u) == \E t \in Txs : u \in UserLockedBy(t)

\* WriteConflict on update_many: a selected item was modified after this
\* transaction's snapshot, or is held by another open transaction
StockConflictNever(t) == FALSE
StockConflict(t) ==
    \E i \in SeqToSet(tx[t].found) :
        \/ stocks[i].status # "available"
        \/ \E o \in Txs \ {t} : i \in StockLockedBy(o)

\* WriteConflict on the $inc of the buyer: the user document was written after
\* this transaction's snapshot, or is held by another open transaction
UserConflictNever(t) == FALSE
UserConflict(t) ==
    \/ tx[t].dirty
    \/ \E o \in Txs \ {t} : tx[t].user_id \in UserLockedBy(o)

\* every committed write to user u invalidates the snapshots of the open
\* transactions that read u and have not written it yet
MarkDirty(u, except) ==
    [t \in Txs |->
        IF t # except /\ tx[t].user_id = u /\ tx[t].pc \in {"update", "debit"}
        THEN [tx[t] EXCEPT !.dirty = TRUE]
        ELSE tx[t]]

\* ------------------------------------------------------------------ purchase
\* cb_confirm line 1506 and purchase_transaction line 1420:
\* `not user or user.get("banned")`
access_denied_never(u) == FALSE
access_denied(u) == banned[u]

\* line 1424: balance < float(total)
insufficient_or_equal(bal, total) == bal <= total
insufficient(bal, total) == bal < total

\* line 1474: remaining <= 3
low_stock_always(remaining) == TRUE
low_stock(remaining) == remaining <= LowStock

\* cb_confirm lines 1505-1525: read the user outside any transaction, refuse a
\* banned one, price the cart
cb_confirm_check(t, u, qty) ==
    /\ tx[t].pc = "idle"
    /\ LET percent == best_discount_percent(discounts, qty)
       IN tx' = [tx EXCEPT ![t] =
                   IF access_denied(u)
                   THEN [IdleTx EXCEPT !.pc = "access_denied", !.user_id = u, !.qty = qty]
                   ELSE [IdleTx EXCEPT !.pc = "confirmed", !.user_id = u, !.qty = qty,
                                       !.percent = percent,
                                       !.total = cart_total(qty, percent)]]
    /\ UNCHANGED <<balance, banned, stocks, orders>>
    /\ UNCHANGED paymentVars
    /\ UNCHANGED restVars

\* purchase_transaction_read with the length check after an update that runs
\* outside the transaction: a shortage leaves the found items sold
purchase_transaction_read_late_check(t) ==
    /\ tx[t].pc = "confirmed"
    /\ \E found \in find_results(stocks, tx[t].qty) :
         LET u == tx[t].user_id
             outcome ==
                 IF access_denied(u) THEN "denied"
                 ELSE IF insufficient(balance[u], tx[t].total) THEN "no_balance"
                 ELSE IF Len(found) < tx[t].qty THEN "no_stock"
                 ELSE "update"
         IN /\ tx' = [tx EXCEPT ![t].pc = outcome,
                                ![t].seen = balance[u],
                                ![t].found = IF outcome = "update" THEN found ELSE <<>>]
            /\ stocks' = IF outcome = "no_stock"
                         THEN [i \in DOMAIN stocks |->
                                 IF i \in SeqToSet(found)
                                 THEN [status |-> "sold", sold_to |-> u] ELSE stocks[i]]
                         ELSE stocks
    /\ UNCHANGED <<balance, banned, orders>>
    /\ UNCHANGED paymentVars
    /\ UNCHANGED restVars

\* purchase_transaction lines 1417-1434: start the transaction, read the user
\* and the available stock from one snapshot, and raise before any write
purchase_transaction_read(t) ==
    /\ tx[t].pc = "confirmed"
    /\ \E found \in find_results(stocks, tx[t].qty) :
         LET u == tx[t].user_id
             outcome ==
                 IF access_denied(u) THEN "denied"
                 ELSE IF insufficient(balance[u], tx[t].total) THEN "no_balance"
                 ELSE IF Len(found) < tx[t].qty THEN "no_stock"
                 ELSE "update"
         IN tx' = [tx EXCEPT ![t].pc = outcome,
                             ![t].seen = balance[u],
                             ![t].found = IF outcome = "update" THEN found ELSE <<>>]
    /\ UNCHANGED <<balance, banned, stocks, orders>>
    /\ UNCHANGED paymentVars
    /\ UNCHANGED restVars

\* lines 1443-1447: update_many on the selected items inside the transaction;
\* a WriteConflict aborts the transaction, whose snapshot is dropped
purchase_transaction_update(t) ==
    /\ tx[t].pc = "update"
    /\ tx' = IF StockConflict(t)
             THEN [tx EXCEPT ![t].pc = "conflict", ![t].found = <<>>, ![t].dirty = FALSE]
             ELSE [tx EXCEPT ![t].pc = "debit"]
    /\ UNCHANGED <<balance, banned, stocks, orders>>
    /\ UNCHANGED paymentVars
    /\ UNCHANGED restVars

\* lines 1449-1453: $inc of the buyer's balance inside the transaction
purchase_transaction_debit(t) ==
    /\ tx[t].pc = "debit"
    /\ tx' = IF UserConflict(t)
             THEN [tx EXCEPT ![t].pc = "conflict", ![t].found = <<>>, ![t].dirty = FALSE]
             ELSE [tx EXCEPT ![t].pc = "commit"]
    /\ UNCHANGED <<balance, banned, stocks, orders>>
    /\ UNCHANGED paymentVars
    /\ UNCHANGED restVars

\* the writes of a committed transaction become visible together
commit_stocks(t) ==
    [i \in DOMAIN stocks |->
        IF i \in SeqToSet(tx[t].found)
        THEN [status |-> "sold", sold_to |-> tx[t].user_id]
        ELSE stocks[i]]
commit_balance_skipped(t) == balance
\* the $inc of the transaction is applied to the balance of its snapshot
commit_balance(t) == [balance EXCEPT ![tx[t].user_id] = tx[t].seen - tx[t].total]
\* delivered holds one line per selected item ("Email: ... Password: ..."), here
\* the item itself: every stock item carries its own credential pair
commit_orders(t) ==
    Append(orders, [user_id |-> tx[t].user_id, qty |-> tx[t].qty,
                    total |-> tx[t].total, delivered |-> tx[t].found])

\* lines 1455-1469: insert the Order and commit on leaving the `async with`
purchase_transaction_commit(t) ==
    /\ tx[t].pc = "commit"
    /\ stocks' = commit_stocks(t)
    /\ balance' = commit_balance(t)
    /\ orders' = commit_orders(t)
    /\ tx' = [MarkDirty(tx[t].user_id, t) EXCEPT ![t].pc = "done"]
    /\ UNCHANGED banned
    /\ UNCHANGED paymentVars
    /\ UNCHANGED restVars

\* lines 1471-1487: after the transaction, count the available items of the
\* product and, when few are left, message the admins; an exception of the
\* count or of a send is swallowed, and the order is returned
purchase_transaction_alert(t) ==
    /\ tx[t].pc = "done"
    /\ \E result \in (IF low_stock(Cardinality(Available(stocks)))
                      THEN {"sent", "failed"} ELSE {"skipped"}) :
         tx' = [tx EXCEPT ![t].pc = "returned", ![t].alert = result]
    /\ UNCHANGED <<balance, banned, stocks, orders>>
    /\ UNCHANGED paymentVars
    /\ UNCHANGED restVars

\* the steps of purchase_transaction inside its `async with` blocks
purchase_transaction_session(t) ==
    \/ purchase_transaction_read(t)
    \/ purchase_transaction_update(t)
    \/ purchase_transaction_debit(t)
    \/ purchase_transaction_commit(t)

\* one confirmed purchase (cb_confirm calling purchase_transaction), up to the
\* end of its transaction: everything of it that reads or writes the store's
\* stock, balances and Orders
purchase_transaction(t) ==
    \/ \E u \in Users, qty \in 1..MaxQty : cb_confirm_check(t, u, qty)
    \/ purchase_transaction_session(t)

NextPurchase == \E t \in Txs : purchase_transaction(t)

\* ------------------------------------------------------------------ initial state
InitPurchase ==
    /\ balance = [u \in Users |-> StartBalance * Hundred]
    /\ banned = [u \in Users |-> FALSE]
    /\ stocks = [i \in StockIds |-> [status |-> "available", sold_to |-> 0]]
    /\ orders = <<>>
    /\ tx = [t \in Txs |-> IdleTx]


\* ------------------------------------------------------------------ payments
\* a key that a document does not have
Absent == 0 - 1

\* the payment document handle_oxapay_payment inserts (lines 260-272)
oxapay_payment(user_id, amount_usd, track_id) ==
    [method |-> "oxapay", status |-> "pending", user_id |-> user_id,
     amount_usd |-> amount_usd, amount_inr |-> Absent,
     oxapay_track_id |-> track_id, razorpay_payment_id |-> None]

\* the payment of user 1 that most specifications start with
oxapay_payment_doc == oxapay_payment(1, AmountUsd, "T1")

\* the payment document handle_payment_captured / handle_qr_payment_success insert
razorpay_payment_doc(user_id, amount_inr, payment_id) ==
    [method |-> "razorpay", status |-> "approved", user_id |-> user_id,
     amount_usd |-> amount_inr, amount_inr |-> amount_inr,
     oxapay_track_id |-> None, razorpay_payment_id |-> payment_id]

\* find_one: index of the first document matching, 0 when none does
FirstIndex(S) == IF S = {} THEN 0 ELSE CHOOSE i \in S : \A j \in S : i <= j
\* the filter {"oxapay_track_id": track_id}: track_id is whatever JSON value the
\* request body holds, a string or a query document such as {"$exists": false}
NoTrackQuery == "$exists: false"
track_matches_any(p, track_id) == TRUE
track_matches(p, track_id) ==
    IF track_id = NoTrackQuery THEN p.oxapay_track_id = None
    ELSE p.oxapay_track_id = track_id
find_by_track(track_id) ==
    FirstIndex({i \in 1..Len(payments) : track_matches(payments[i], track_id)})
find_by_razorpay_id_blind(payment_id) == 0
find_by_razorpay_id(payment_id) ==
    FirstIndex({i \in 1..Len(payments) : payments[i].razorpay_payment_id = payment_id})

\* a non-transactional write to a user document waits while an open
\* transaction holds that document, and invalidates older snapshots of it;
\* delta is a number of credits
inc_balance(u, delta) ==
    /\ ~UserLocked(u)
    /\ balance' = [balance EXCEPT ![u] = @ + delta * Hundred]
    /\ tx' = MarkDirty(u, 0)

\* the "amount" of a JSON body: a number, or anything else (a string, null, or
\* no such key: data.get("amount") is None)
Number(v) == [is_number |-> TRUE, value |-> v]
NoAmount == [is_number |-> FALSE, value |-> 0]

\* the webhook bodies the provider sends to /oxapay/webhook
OxaEvents ==
    { [track_id |-> "T1", status |-> "paid", amount |-> Number(AmountUsd)],
      [track_id |-> "T1", status |-> "waiting", amount |-> Number(AmountUsd)],
      [track_id |-> "T9", status |-> "paid", amount |-> Number(AmountUsd)],
      [track_id |-> NoTrackQuery, status |-> "paid", amount |-> Number(AmountUsd)] }

\* settlement bodies for the payment T1 that differ in their amount field
WebhookAmounts == 0..MaxWebhookAmount
OxaAmountEvents ==
    { [track_id |-> "T1", status |-> status, amount |-> Number(a)] :
        status \in {"paid", "completed"}, a \in WebhookAmounts }

\* the bodies OxaPay sends while the payer's transfer is not settled yet:
\* waiting for the transfer, and seen on chain but not confirmed
OxaIntermediateEvents ==
    { [track_id |-> "T1", status |-> "waiting", amount |-> Number(AmountUsd)],
      [track_id |-> "T1", status |-> "confirming", amount |-> Number(AmountUsd)] }

\* bodies without a track_id (no key, or an empty string) or whose amount is
\* not a number
OxaMalformedEvents ==
    { [track_id |-> None, status |-> "paid", amount |-> Number(AmountUsd)],
      [track_id |-> "", status |-> "paid", amount |-> Number(AmountUsd)],
      [track_id |-> "T1", status |-> "paid", amount |-> NoAmount],
      [track_id |-> None, status |-> "paid", amount |-> NoAmount] }

\* the "ok" of the answer, per outcome of the lookup (lines 140-165, 208)
oxapay_webhook_ok(pc) ==
    pc \notin {"missing_track", "invalid_amount", "invalid_status", "not_found", "invalid_method"}

\* line 138: `not track_id`
missing_track_id(track_id) == track_id \in {None, ""}

\* line 142: isinstance(amount, (int, float))
is_number_any(amount) == TRUE
is_number(amount) == amount.is_number

\* lines 132-165: validate the body, look the payment up, return early on a
\* payment that is already approved
oxapay_webhook_find(h, data) ==
    /\ hook[h].pc = "idle"
    /\ LET i == find_by_track(data.track_id)
           outcome ==
               IF missing_track_id(data.track_id) THEN "missing_track"
               ELSE IF ~is_number(data.amount) THEN "invalid_amount"
               ELSE IF data.status \notin {"paid", "confirming", "completed"} THEN "invalid_status"
               ELSE IF i = 0 THEN "not_found"
               ELSE IF payments[i].method # "oxapay" THEN "invalid_method"
               ELSE IF payments[i].status = "approved" THEN "already"
               ELSE "update"
       IN hook' = [hook EXCEPT ![h] = [pc |-> outcome, data |-> data, payment |-> i,
                                       modified |-> FALSE]]
    /\ UNCHANGED <<balance, banned, payments, rzp, expiry, cancel, review, adjust, credits>>
    /\ UNCHANGED purchaseVars
    /\ UNCHANGED restVars

\* the filter of the conditional update (line 174)
oxapay_update_filter_any(i, track_id) == track_matches(payments[i], track_id)
oxapay_update_filter(i, track_id) ==
    track_matches(payments[i], track_id) /\ payments[i].status # "approved"

\* lines 173-176: update_one({track, status != approved}, {status: approved})
oxapay_webhook_update(h) ==
    /\ hook[h].pc = "update"
    /\ LET i == FirstIndex({j \in 1..Len(payments) :
                               oxapay_update_filter(j, hook[h].data.track_id)})
       IN IF i = 0
          THEN /\ hook' = [hook EXCEPT ![h].pc = "notify"]
               /\ UNCHANGED payments
          ELSE /\ hook' = [hook EXCEPT ![h].pc = "credit", ![h].modified = TRUE]
               /\ payments' = [payments EXCEPT ![i].status = "approved"]
    /\ UNCHANGED <<balance, banned, rzp, expiry, cancel, review, adjust, credits>>
    /\ UNCHANGED purchaseVars
    /\ UNCHANGED restVars

\* line 168: amount_usd = float(payment.get("amount_usd", 0)), the amount of
\* the stored Payment and not the one of the body
oxapay_amount_usd_of_body(payment, data) == data.amount.value
oxapay_amount_usd(payment, data) == payment.amount_usd

\* lines 167-170: amount_inr = int(amount_usd * usd_to_inr)
oxapay_credit_amount_unconverted(p) == p.amount_usd
oxapay_credit_amount(p) == p.amount_usd * USD_TO_INR_RATE

\* lines 179-183: $inc of the balance when modified_count > 0
oxapay_webhook_credit(h) ==
    /\ hook[h].pc = "credit"
    /\ LET p == payments[hook[h].payment]
       IN /\ inc_balance(p.user_id,
                        oxapay_credit_amount([p EXCEPT !.amount_usd =
                                                 oxapay_amount_usd(p, hook[h].data)]))
          /\ credits' = [credits EXCEPT ![p.oxapay_track_id] = @ + 1]
    /\ hook' = [hook EXCEPT ![h].pc = "notify"]
    /\ UNCHANGED <<banned, stocks, orders, payments, rzp, expiry, cancel, review, adjust>>
    /\ UNCHANGED restVars

\* lines 186-208: delete the payment message, send "Payment received", answer ok
oxapay_webhook_notify(h) ==
    /\ hook[h].pc = "notify"
    /\ hook' = [hook EXCEPT ![h].pc = "done"]
    /\ sent' = [sent EXCEPT !["received"] = @ + 1]
    /\ UNCHANGED <<balance, banned, payments, rzp, expiry, cancel, review, adjust, credits>>
    /\ UNCHANGED purchaseVars
    /\ UNCHANGED <<flow, discounts, razorpay_state, secret, funding, products, step, qr>>

\* an awaited store call raises (the handler has no try/except): the request
\* ends there and the provider delivers the event again later
oxapay_webhook_raise(h) ==
    /\ hook[h].pc \in {"update", "credit"}
    /\ hook' = [hook EXCEPT ![h].pc = "raised"]
    /\ UNCHANGED <<balance, banned, payments, rzp, expiry, cancel, review, adjust, credits>>
    /\ UNCHANGED purchaseVars
    /\ UNCHANGED restVars

\* ------------------------------------------------------------------ razorpay
\* the events Razorpay sends
RzpEvents == {"payment.captured", "qr_code.credited", "payment.authorized"}

\* the bodies of the events for the UPI payment "R1" that user 1 made on the QR
\* code handle_razorpay_payment created for them
RzpBodies ==
    [event : RzpEvents, payment_id : {"R1"}, user_id : {1}, amount : {Number(AmountPaise)}]

\* the bodies of settlement events for a payment "R9" on the merchant account
\* that no funding of this bot started; its notes name user 2
ForeignBodies ==
    [event : {"payment.captured", "qr_code.credited"}, payment_id : {"R9"}, user_id : {2},
     amount : {Number(AmountPaise)}]

\* settlement events whose entity lacks the "id", the "amount", or the
\* telegram_user_id of the notes (payment.get('id') is None, user_id is None)
MalformedBodies ==
    [event : {"payment.captured", "qr_code.credited"}, payment_id : {None}, user_id : {1},
     amount : {Number(AmountPaise)}]
    \cup [event : {"payment.captured", "qr_code.credited"}, payment_id : {"R1"}, user_id : {1},
          amount : {NoAmount}]
    \cup [event : {"payment.captured", "qr_code.credited"}, payment_id : {"R1"}, user_id : {0},
          amount : {Number(AmountPaise)}]

\* hmac.new(key, payload, sha256).hexdigest(): one digest per key and payload
hmac_sha256(key, payload) == [key |-> key, payload |-> payload]

\* the X-Razorpay-Signature values of requests the provider did not sign: a
\* missing header ('' by default) and a digest under another key
NoBody == [event |-> None, payment_id |-> None, user_id |-> 0, amount |-> NoAmount]
NoSignature == [key |-> None, payload |-> NoBody]
BadSignatures(body) == {NoSignature, hmac_sha256("guess", body)}

\* razorpay_webhook.py lines 16-28
verify_webhook_signature(payload, signature) ==
    IF secret = "" THEN TRUE ELSE signature = hmac_sha256(secret, payload)

\* razorpay_webhook.py lines 38 / 159: payment.get('amount', 0)
amount_or_zero(amount) == IF amount.is_number THEN amount.value ELSE 0

\* bot.py lines 90-116 and razorpay_webhook.py lines 34-57 / 155-178: verify
\* the signature, dispatch on the event, read the ids, return when the notes
\* name no user, look for a record of this payment id
razorpay_webhook_find(r, body, signature) ==
    /\ rzp[r].pc = "idle"
    /\ LET outcome ==
               IF ~verify_webhook_signature(body, signature) THEN "bad_signature"
               ELSE IF body.event \notin {"payment.captured", "qr_code.credited"} THEN "ignored"
               ELSE IF body.user_id = 0 THEN "no_user"
               ELSE IF find_by_razorpay_id(body.payment_id) # 0 THEN "duplicate"
               ELSE "insert"
       IN rzp' = [rzp EXCEPT ![r] = [pc |-> outcome, event |-> body.event,
                                     payment_id |-> body.payment_id,
                                     user_id |-> body.user_id,
                                     amount |-> body.amount,
                                     signed |-> signature = hmac_sha256(secret, body)]]
    /\ UNCHANGED <<balance, banned, payments, hook, expiry, cancel, review, adjust, credits>>
    /\ UNCHANGED purchaseVars
    /\ UNCHANGED restVars

\* amount_inr = amount_paise // 100
paise_to_inr(amount_paise) == amount_paise \div 100

\* razorpay_webhook.py lines 67-81 / 188-203: insert the approved record
razorpay_webhook_insert(r) ==
    /\ rzp[r].pc = "insert"
    /\ payments' = Append(payments,
                          razorpay_payment_doc(rzp[r].user_id,
                                               paise_to_inr(amount_or_zero(rzp[r].amount)),
                                               rzp[r].payment_id))
    /\ rzp' = [rzp EXCEPT ![r].pc = "credit"]
    /\ UNCHANGED <<balance, banned, hook, expiry, cancel, review, adjust, credits>>
    /\ UNCHANGED purchaseVars
    /\ UNCHANGED restVars

\* razorpay_webhook.py lines 84-87 / 206-209: $inc of the balance
razorpay_webhook_credit(r) ==
    /\ rzp[r].pc = "credit"
    /\ inc_balance(rzp[r].user_id, paise_to_inr(amount_or_zero(rzp[r].amount)))
    /\ credits' = [credits EXCEPT ![rzp[r].payment_id] = @ + 1]
    /\ rzp' = [rzp EXCEPT ![r].pc = "cleanup"]
    /\ UNCHANGED <<banned, stocks, orders, payments, hook, expiry, cancel, review, adjust>>
    /\ UNCHANGED restVars

\* razorpay_webhook.py lines 89-146 / 211-272: delete the QR message, drop the
\* payer's entry of RAZORPAY_STATE, notify
razorpay_webhook_cleanup(r) ==
    /\ rzp[r].pc = "cleanup"
    /\ razorpay_state' = [razorpay_state EXCEPT ![rzp[r].user_id] = None]
    /\ qr' = IF razorpay_state[rzp[r].user_id] = None THEN qr
             ELSE [qr EXCEPT ![razorpay_state[rzp[r].user_id]].deleted = TRUE]
    /\ rzp' = [rzp EXCEPT ![r].pc = "done"]
    /\ UNCHANGED <<balance, banned, payments, hook, expiry, cancel, review, adjust, credits>>
    /\ UNCHANGED purchaseVars
    /\ UNCHANGED <<sent, flow, discounts, secret, funding, products, step>>

\* an awaited store call raises; the handler's `except Exception` logs it and
\* the endpoint still answers ok
razorpay_webhook_raise(r) ==
    /\ rzp[r].pc \in {"insert", "credit"}
    /\ rzp' = [rzp EXCEPT ![r].pc = "raised"]
    /\ UNCHANGED <<balance, banned, payments, hook, expiry, cancel, review, adjust, credits>>
    /\ UNCHANGED purchaseVars
    /\ UNCHANGED restVars

\* ------------------------------------------------------------------ expiry task
set_status(i, status) == [payments EXCEPT ![i].status = status]

\* lines 431-436: the statuses on which the countdown loop returns
expiry_stops_on_approved(status) == status = "approved"
expiry_stops(status) == status \in {"approved", "cancelled", "expired"}

\* lines 425-472: one turn of the countdown loop: sleep, read the payment,
\* stop on approved / cancelled / expired, else edit the countdown message
handle_oxapay_expiry_poll ==
    /\ expiry.pc = "poll"
    /\ LET i == find_by_track("T1")
       IN expiry' =
            IF i # 0 /\ expiry_stops(payments[i].status)
            THEN [expiry EXCEPT !.pc = "stopped"]
            ELSE IF expiry.remaining = 1
                 THEN [expiry EXCEPT !.pc = "final", !.remaining = 0, !.edits = @ + 1]
                 ELSE [expiry EXCEPT !.remaining = @ - 1, !.edits = @ + 1]
    /\ UNCHANGED <<balance, banned, payments, hook, rzp, cancel, review, adjust, credits>>
    /\ UNCHANGED purchaseVars
    /\ UNCHANGED restVars

\* lines 475-476: after the loop, read the payment again
handle_oxapay_expiry_read ==
    /\ expiry.pc = "final"
    /\ LET i == find_by_track("T1")
       IN expiry' = [expiry EXCEPT !.pc =
                        IF i # 0 /\ payments[i].status = "pending" THEN "write" ELSE "notify"]
    /\ UNCHANGED <<balance, banned, payments, hook, rzp, cancel, review, adjust, credits>>
    /\ UNCHANGED purchaseVars
    /\ UNCHANGED restVars

\* lines 477-480: update_one({track}, {status: expired})
handle_oxapay_expiry_write ==
    /\ expiry.pc = "write"
    /\ payments' = set_status(find_by_track("T1"), "expired")
    /\ expiry' = [expiry EXCEPT !.pc = "notify", !.wrote = TRUE]
    /\ UNCHANGED <<balance, banned, hook, rzp, cancel, review, adjust, credits>>
    /\ UNCHANGED purchaseVars
    /\ UNCHANGED restVars

\* lines 485-501: delete the payment message and send "Payment Expired"
handle_oxapay_expiry_notify ==
    /\ expiry.pc = "notify"
    /\ expiry' = [expiry EXCEPT !.pc = "done", !.deleted = TRUE]
    /\ sent' = [sent EXCEPT !["expired"] = @ + 1]
    /\ UNCHANGED <<balance, banned, payments, hook, rzp, cancel, review, adjust, credits>>
    /\ UNCHANGED purchaseVars
    /\ UNCHANGED <<flow, discounts, razorpay_state, secret, funding, products, step, qr>>

\* ------------------------------------------------------------------ user cancel
\* lines 2392-2393: read the payment of the pressed button
cb_cancel_oxapay_read ==
    /\ cancel.pc = "idle"
    /\ LET i == find_by_track("T1")
       IN cancel' = [cancel EXCEPT !.pc =
                        IF i # 0 /\ payments[i].status = "pending" THEN "write" ELSE "notify"]
    /\ UNCHANGED <<balance, banned, payments, hook, rzp, expiry, review, adjust, credits>>
    /\ UNCHANGED purchaseVars
    /\ UNCHANGED restVars

\* lines 2394-2397: update_one({track}, {status: cancelled})
cb_cancel_oxapay_write ==
    /\ cancel.pc = "write"
    /\ payments' = set_status(find_by_track("T1"), "cancelled")
    /\ cancel' = [cancel EXCEPT !.pc = "notify"]
    /\ UNCHANGED <<balance, banned, hook, rzp, expiry, review, adjust, credits>>
    /\ UNCHANGED purchaseVars
    /\ UNCHANGED restVars

\* lines 2399-2415: delete the message and send "Payment Cancelled"
cb_cancel_oxapay_notify ==
    /\ cancel.pc = "notify"
    /\ cancel' = [cancel EXCEPT !.pc = "done"]
    /\ sent' = [sent EXCEPT !["cancelled"] = @ + 1]
    /\ UNCHANGED <<balance, banned, payments, hook, rzp, expiry, review, adjust, credits>>
    /\ UNCHANGED purchaseVars
    /\ UNCHANGED <<flow, discounts, razorpay_state, secret, funding, products, step, qr>>

\* ------------------------------------------------------------------ admin review
\* what a Payment is known by: the OxaPay track id, the Razorpay payment id,
\* or neither for a Payment of the manual proof flow
PaymentRef(p) ==
    IF p.oxapay_track_id # None THEN p.oxapay_track_id
    ELSE IF p.razorpay_payment_id # None THEN p.razorpay_payment_id
    ELSE "manual"

\* p.get("amount_usd", 0) of line 2801
get_amount_usd(p) == IF p.amount_usd = Absent THEN 0 ELSE p.amount_usd

\* lines 2743-2794: read the payment by _id; only a pending one is reviewed
cb_admin_pay_action_read(i, action) ==
    /\ review.pc = "idle"
    /\ i \in 1..Len(payments)
    /\ review' = [pc |-> IF payments[i].status # "pending" THEN "already" ELSE action,
                  payment |-> i, amount |-> get_amount_usd(payments[i])]
    /\ UNCHANGED <<balance, banned, payments, hook, rzp, expiry, cancel, adjust, credits>>
    /\ UNCHANGED purchaseVars
    /\ UNCHANGED restVars

\* lines 2797-2800: update_one({_id}, {status: approved})
cb_admin_pay_action_approve ==
    /\ review.pc = "approve"
    /\ payments' = set_status(review.payment, "approved")
    /\ review' = [review EXCEPT !.pc = "credit"]
    /\ UNCHANGED <<balance, banned, hook, rzp, expiry, cancel, adjust, credits>>
    /\ UNCHANGED purchaseVars
    /\ UNCHANGED restVars

\* line 2801: $inc of the balance by float(p.get("amount_usd", 0))
cb_admin_pay_action_credit ==
    /\ review.pc = "credit"
    /\ LET p == payments[review.payment]
       IN /\ inc_balance(p.user_id, review.amount)
          /\ credits' = [credits EXCEPT ![PaymentRef(p)] = @ + 1]
    /\ review' = [review EXCEPT !.pc = "done"]
    /\ UNCHANGED <<banned, stocks, orders, payments, hook, rzp, expiry, cancel, adjust>>
    /\ UNCHANGED restVars

\* lines 2846-2849: update_one({_id}, {status: rejected})
cb_admin_pay_action_reject ==
    /\ review.pc = "reject"
    /\ payments' = set_status(review.payment, "rejected")
    /\ review' = [review EXCEPT !.pc = "done"]
    /\ UNCHANGED <<balance, banned, hook, rzp, expiry, cancel, adjust, credits>>
    /\ UNCHANGED purchaseVars
    /\ UNCHANGED restVars

\* ------------------------------------------------------------------ flow state
\* users.flow is None or one document; a document is its set of
\* <<field, value>> pairs
FlowNone == {}
FlowFields(f) == {p[1] : p \in f}
FlowGet(f, field) == (CHOOSE p \in f : p[1] = field)[2]
FlowType(f) == IF f = FlowNone THEN None ELSE FlowGet(f, "type")

\* update_one({"_id": user}, {"$set": {"flow": value}}): the field is replaced
set_flow_merge(old, value) == value \cup {p \in old : p[1] \notin FlowFields(value)}
set_flow(old, value) == value

\* is_admin: the owner and config.ADMIN_IDS
Admins == {1}
is_admin(user_id) == user_id \in Admins

\* cb_pay_method lines 1809-1841: the user picked a payment method
cb_pay_method(u, method) ==
    /\ flow' = [flow EXCEPT ![u] =
                  set_flow(@, {<<"type", "await_amount">>, <<"method", method>>})]
    /\ UNCHANGED <<balance, banned, payments, hook, rzp, expiry, cancel, review, adjust, credits>>
    /\ UNCHANGED purchaseVars
    /\ UNCHANGED <<sent, discounts, razorpay_state, secret, funding, products, step, qr>>

\* cb_admin_stock_prod line 3321: an admin picked the product to add stock to
cb_admin_stock_prod(u) ==
    /\ is_admin(u)
    /\ flow' = [flow EXCEPT ![u] =
                  set_flow(@, {<<"type", "await_stock_email">>, <<"product_id", "P1">>})]
    /\ UNCHANGED <<balance, banned, payments, hook, rzp, expiry, cancel, review, adjust, credits>>
    /\ UNCHANGED purchaseVars
    /\ UNCHANGED <<sent, discounts, razorpay_state, secret, funding, products, step, qr>>

\* on_text lines 2125-2134: the admin sent the email of the new stock item
on_text_await_stock_email(u) ==
    /\ ~banned[u]
    /\ is_admin(u)
    /\ FlowType(flow[u]) = "await_stock_email"
    /\ flow' = [flow EXCEPT ![u] =
                  set_flow(@, {<<"type", "await_stock_password">>,
                               <<"product_id", FlowGet(flow[u], "product_id")>>,
                               <<"email", "E1">>})]
    /\ UNCHANGED <<balance, banned, payments, hook, rzp, expiry, cancel, review, adjust, credits>>
    /\ UNCHANGED purchaseVars
    /\ UNCHANGED <<sent, discounts, razorpay_state, secret, funding, products, step, qr>>

\* on_text lines 2136-2158: the admin sent the password: insert the stock item
\* and clear the flow
on_text_await_stock_password(u) ==
    /\ ~banned[u]
    /\ is_admin(u)
    /\ FlowType(flow[u]) = "await_stock_password"
    /\ Len(stocks) < NStock + MaxInserts
    /\ stocks' = Append(stocks, [status |-> "available", sold_to |-> 0])
    /\ flow' = [flow EXCEPT ![u] = set_flow(@, FlowNone)]
    /\ UNCHANGED <<balance, banned, orders, tx>>
    /\ UNCHANGED paymentVars
    /\ UNCHANGED <<sent, discounts, razorpay_state, secret, funding, products, step, qr>>

\* cb_admin_disc_for lines 3059-3070: an admin picked the product to set rules for
cb_admin_disc_for(u) ==
    /\ is_admin(u)
    /\ flow' = [flow EXCEPT ![u] =
                  set_flow(@, {<<"type", "admin_discount_rules">>, <<"product_id", "P1">>})]
    /\ UNCHANGED <<balance, banned, payments, hook, rzp, expiry, cancel, review, adjust, credits>>
    /\ UNCHANGED purchaseVars
    /\ UNCHANGED <<sent, discounts, razorpay_state, secret, funding, products, step, qr>>

\* lines 2055-2056: min_qty = max(1, int(parts[0])); percent = max(0, min(100, int(parts[1])))
clamp_rule(r) == [min_qty |-> Max(1, r.min_qty), percent |-> Max(0, Min(100, r.percent))]

\* rules.sort(key=lambda r: r["min_qty"]): a stable sort
RECURSIVE insert_rule(_, _)
insert_rule(sorted, r) ==
    IF sorted = <<>> THEN <<r>>
    ELSE IF Head(sorted).min_qty <= r.min_qty
         THEN <<Head(sorted)>> \o insert_rule(Tail(sorted), r)
         ELSE <<r>> \o sorted

RECURSIVE sort_rules(_)
sort_rules(rules) ==
    IF rules = <<>> THEN <<>>
    ELSE insert_rule(sort_rules(SubSeq(rules, 1, Len(rules) - 1)), rules[Len(rules)])

RECURSIVE clamp_rules(_)
clamp_rules(lines) ==
    IF lines = <<>> THEN <<>> ELSE <<clamp_rule(Head(lines))>> \o clamp_rules(Tail(lines))

\* the "min_qty percent" lines an admin types
RuleInputs == [min_qty : 0..MaxQty, percent : {0 - 10, 10, 150}]
RuleLines == {<<>>} \cup {<<a>> : a \in RuleInputs} \cup {<<a, b>> : a, b \in RuleInputs}

\* on_text lines 2043-2071: parse, clamp and sort the rules, store the
\* document (upsert), clear the flow
on_text_admin_discount_rules(u, lines) ==
    /\ ~banned[u]
    /\ is_admin(u)
    /\ FlowType(flow[u]) = "admin_discount_rules"
    /\ discounts' = [exists |-> TRUE, rules |-> sort_rules(clamp_rules(lines))]
    /\ flow' = [flow EXCEPT ![u] = set_flow(@, FlowNone)]
    /\ UNCHANGED <<balance, banned, payments, hook, rzp, expiry, cancel, review, adjust, credits>>
    /\ UNCHANGED purchaseVars
    /\ UNCHANGED <<sent, razorpay_state, secret, funding, products, step, qr>>

\* ------------------------------------------------------------------ admin balance
\* cb_admin_user_action lines 3252-3282: an admin pressed ban / unban (the
\* target's banned flag is written at once) or add / subtract balance (the
\* admin's flow is started); a write to a user document waits while an open
\* transaction holds it, and invalidates older snapshots of it
cb_admin_user_action(u, target_id, action) ==
    /\ is_admin(u)
    /\ IF action \in {"ban", "unban"}
       THEN /\ ~UserLocked(target_id)
            /\ banned' = [banned EXCEPT ![target_id] = (action = "ban")]
            /\ tx' = MarkDirty(target_id, 0)
            /\ UNCHANGED flow
       ELSE /\ flow' = [flow EXCEPT ![u] =
                          set_flow(@, {<<"type", "admin_user_balance">>,
                                       <<"target_id", target_id>>, <<"op", action>>})]
            /\ UNCHANGED <<banned, tx>>
    /\ UNCHANGED <<balance, stocks, orders>>
    /\ UNCHANGED paymentVars
    /\ UNCHANGED <<sent, discounts, razorpay_state, secret, funding, products, step, qr>>

\* the amounts an admin types in flow admin_user_balance
AdjustAmounts == {1, MaxAdjust}

\* on_text lines 2098-2110: delta = amt if op == "addbal" else -amt; $inc of
\* the target's balance; clear the flow
on_text_admin_user_balance(u, amt) ==
    /\ adjust.pc = "idle"
    /\ ~banned[u]
    /\ is_admin(u)
    /\ FlowType(flow[u]) = "admin_user_balance"
    /\ inc_balance(FlowGet(flow[u], "target_id"),
                   IF FlowGet(flow[u], "op") = "addbal" THEN amt ELSE 0 - amt)
    /\ flow' = [flow EXCEPT ![u] = set_flow(@, FlowNone)]
    /\ adjust' = [pc |-> "done"]
    /\ UNCHANGED <<banned, stocks, orders, payments, hook, rzp, expiry, cancel, review, credits>>
    /\ UNCHANGED <<sent, discounts, razorpay_state, secret, funding, products, step, qr>>

\* ------------------------------------------------------------------ funding request
\* float(s): the value of a text in hundredths, nan for "nan" (Python parses
\* it), ValueError for a text that is no float literal
ValueError == [ok |-> FALSE, nan |-> FALSE, value |-> 0]
NaN == [ok |-> TRUE, nan |-> TRUE, value |-> 0]
Float(v) == [ok |-> TRUE, nan |-> FALSE, value |-> v]

\* the texts a user sends in flow await_amount; the amounts that pass are whole
Texts == {"abc", "nan", "0", "0.05", "1", "$1"}

\* message.text.strip().replace('$', '').replace(',', '')
strip_currency(text) == IF text = "$1" THEN "1" ELSE text

float(text) ==
    CASE text = "1" -> Float(Hundred)
      [] text = "0.05" -> Float(5)
      [] text = "0" -> Float(0)
      [] text = "nan" -> NaN
      [] OTHER -> ValueError

\* a < b of Python floats: False when a is nan
less_than(a, b) == ~a.nan /\ a.value < b

\* the minimum of on_text, in hundredths: amount_inr < 1 (razorpay),
\* amount_usd < 0.1 (oxapay)
minimum(method) == IF method = "razorpay" THEN Hundred ELSE 10

below_minimum_never(method, amount) == FALSE
below_minimum(method, amount) == less_than(amount, minimum(method))

\* money_int lines 305-313: Decimal(text.strip()), no currency sign removed;
\* dec <= 0 raises ValueError; of a NaN the comparison itself raises
\* decimal.InvalidOperation, which on_text does not catch
InvalidOperation == [ok |-> FALSE, nan |-> TRUE, value |-> 0]
money_int(text) ==
    LET dec == float(text)
    IN IF ~dec.ok THEN ValueError
       ELSE IF dec.nan THEN InvalidOperation
       ELSE IF dec.value <= 0 THEN ValueError
       ELSE Float((dec.value \div Hundred) * Hundred)

\* the track id create_payment returns for the k-th request
Tracks == <<"T1", "T2", "T3", "T4">>

\* no message handled yet
IdleMsg == [pc |-> "idle", user_id |-> 0, method |-> None, amount |-> ValueError,
            payment |-> 0]

\* on_text lines 1946-2000: the flow is read; in flow await_amount the text is
\* parsed and checked against the minimum of the method; a text that fails is
\* answered with an edit of the UI message and the handler returns
on_text_await_amount(k, u, text) ==
    /\ funding[k].pc = "idle"
    /\ ~banned[u]
    /\ FlowType(flow[u]) = "await_amount"
    /\ LET method == FlowGet(flow[u], "method")
           amount == IF method \in {"razorpay", "oxapay"}
                     THEN float(strip_currency(text)) ELSE money_int(text)
           pc == IF ~amount.ok THEN (IF amount.nan THEN "raised" ELSE "rejected")
                 ELSE IF method \in {"razorpay", "oxapay"} /\ below_minimum(method, amount)
                 THEN "rejected"
                 ELSE IF method = "oxapay" THEN "create"
                 ELSE IF method = "razorpay" THEN "qr"
                 ELSE "manual"
       IN funding' = [funding EXCEPT ![k] =
                        [pc |-> pc, user_id |-> u, method |-> method, amount |-> amount,
                         payment |-> 0]]
    /\ UNCHANGED <<balance, banned, flow>>
    /\ UNCHANGED purchaseVars
    /\ UNCHANGED paymentVars
    /\ UNCHANGED <<sent, discounts, razorpay_state, secret, products, step, qr>>

\* handle_oxapay_payment lines 218-241: create the payment at OxaPay and clear
\* the flow. create_payment may raise (the `except` at 295-302 reports 'Error
\* creating payment' and clears the flow); of a nan amount
\* int(amount_usd * usd_to_inr) at line 241 raises after the flow was cleared
handle_oxapay_payment_create(k) ==
    /\ funding[k].pc = "create"
    /\ flow' = [flow EXCEPT ![funding[k].user_id] = set_flow(@, FlowNone)]
    /\ \E pc \in (IF funding[k].amount.nan THEN {"failed"} ELSE {"insert", "failed"}) :
          funding' = [funding EXCEPT ![k].pc = pc]
    /\ UNCHANGED <<balance, banned>>
    /\ UNCHANGED purchaseVars
    /\ UNCHANGED paymentVars
    /\ UNCHANGED <<sent, discounts, razorpay_state, secret, products, step, qr>>

\* lines 257-272: insert the pending Payment
handle_oxapay_payment_insert(k) ==
    /\ funding[k].pc = "insert"
    /\ payments' = Append(payments,
                          oxapay_payment(funding[k].user_id,
                                         funding[k].amount.value \div Hundred, Tracks[k]))
    /\ funding' = [funding EXCEPT ![k].pc = "send"]
    /\ UNCHANGED <<balance, banned, hook, rzp, expiry, cancel, review, adjust, credits>>
    /\ UNCHANGED purchaseVars
    /\ UNCHANGED <<sent, flow, discounts, razorpay_state, secret, products, step, qr>>

\* lines 283-293: send the payment message, then create the expiry task (the
\* run of the task is followed for the payment T1)
handle_oxapay_payment_send(k) ==
    /\ funding[k].pc = "send"
    /\ funding' = [funding EXCEPT ![k].pc = "done"]
    /\ expiry' = IF Tracks[k] = oxapay_payment_doc.oxapay_track_id
                 THEN [expiry EXCEPT !.pc = "poll"] ELSE expiry
    /\ UNCHANGED <<balance, banned, payments, hook, rzp, cancel, review, adjust, credits>>
    /\ UNCHANGED purchaseVars
    /\ UNCHANGED <<sent, flow, discounts, razorpay_state, secret, products, step, qr>>

\* lines 295-302: bot.send_message raised (the user blocked the bot, the
\* network failed): the `except` reports an error and clears the flow; the
\* line that creates the expiry task is never reached
handle_oxapay_payment_except(k) ==
    /\ funding[k].pc = "send"
    /\ funding' = [funding EXCEPT ![k].pc = "failed"]
    /\ flow' = [flow EXCEPT ![funding[k].user_id] = set_flow(@, FlowNone)]
    /\ UNCHANGED <<balance, banned, payments, hook, rzp, expiry, cancel, review, adjust, credits>>
    /\ UNCHANGED purchaseVars
    /\ UNCHANGED <<sent, discounts, razorpay_state, secret, products, step, qr>>

\* ------------------------------------------------------------------ manual proof flow
\* the keys of config.PAYMENTS: razorpay and oxapay as shipped; the code also
\* serves the manual methods, whose funding an admin reviews (cb_pay_amount
\* lines 1908-1913: upi, binance)
PAYMENTS == {"razorpay", "oxapay", "upi"}

\* cb_pay_amount lines 1890-1897: the user pressed "pay" under a method
cb_pay_amount(u, method) ==
    /\ method \in PAYMENTS
    /\ flow' = [flow EXCEPT ![u] =
                  set_flow(@, {<<"type", "await_amount">>, <<"method", method>>})]
    /\ UNCHANGED <<balance, banned, payments, hook, rzp, expiry, cancel, review, adjust, credits>>
    /\ UNCHANGED purchaseVars
    /\ UNCHANGED <<sent, discounts, razorpay_state, secret, funding, products, step, qr>>

\* the payment document on_text inserts for a manual method (lines 2003-2013):
\* it has amount_inr and no amount_usd
manual_payment(user_id, method, amount) ==
    [method |-> method, status |-> "await_proof", user_id |-> user_id,
     amount_usd |-> Absent, amount_inr |-> amount,
     oxapay_track_id |-> None, razorpay_payment_id |-> None]

\* on_text lines 2002-2014: insert the Payment that awaits its proof
on_text_manual_insert(k) ==
    /\ funding[k].pc = "manual"
    /\ payments' = Append(payments,
                          manual_payment(funding[k].user_id, funding[k].method,
                                         funding[k].amount.value \div Hundred))
    /\ funding' = [funding EXCEPT ![k].pc = "manual_flow", ![k].payment = Len(payments) + 1]
    /\ UNCHANGED <<balance, banned, hook, rzp, expiry, cancel, review, adjust, credits>>
    /\ UNCHANGED purchaseVars
    /\ UNCHANGED <<sent, flow, discounts, razorpay_state, secret, products, step, qr>>

\* on_text lines 2015-2026: the flow goes on to await_proof
on_text_manual_flow(k) ==
    /\ funding[k].pc = "manual_flow"
    /\ flow' = [flow EXCEPT ![funding[k].user_id] =
                  set_flow(@, {<<"type", "await_proof">>,
                               <<"payment_id", funding[k].payment>>})]
    /\ funding' = [funding EXCEPT ![k].pc = "done"]
    /\ UNCHANGED <<balance, banned>>
    /\ UNCHANGED purchaseVars
    /\ UNCHANGED paymentVars
    /\ UNCHANGED <<sent, discounts, razorpay_state, secret, products, step, qr>>

\* no step handler is running
IdleStep == [pc |-> "idle", user_id |-> 0, payment |-> 0, field |-> None, value |-> None]

\* the handler of the previous message of a step has returned
StepFree == step.pc \in {"idle", "done", "invalid", "session_expired"}

\* flow.get(field): None when the document has no such key
FlowGetOrNone(f, field) == IF field \in FlowFields(f) THEN FlowGet(f, field) ELSE None

\* `not value` of a flow field: the key is missing or holds an empty string
falsy(value) == value \in {None, ""}

\* on_photo lines 2286-2298: in flow await_proof the payment id is read from
\* the flow; without one the user is told 'Session expired. Start again.' and
\* the flow is cleared
on_photo_read(u) ==
    /\ StepFree
    /\ ~banned[u]
    /\ FlowType(flow[u]) = "await_proof"
    /\ IF "payment_id" \notin FlowFields(flow[u])
       THEN /\ step' = [IdleStep EXCEPT !.pc = "session_expired", !.user_id = u]
            /\ flow' = [flow EXCEPT ![u] = set_flow(@, FlowNone)]
       ELSE /\ step' = [IdleStep EXCEPT !.pc = "proof", !.user_id = u,
                                        !.payment = FlowGet(flow[u], "payment_id")]
            /\ UNCHANGED flow
    /\ UNCHANGED <<balance, banned>>
    /\ UNCHANGED purchaseVars
    /\ UNCHANGED paymentVars
    /\ UNCHANGED <<sent, discounts, razorpay_state, secret, funding, products, qr>>

\* lines 2303-2306: update_one({_id, user_id}, {status: pending, proof_photo})
on_photo_update ==
    /\ step.pc = "proof"
    /\ payments' = IF /\ step.payment \in 1..Len(payments)
                      /\ payments[step.payment].user_id = step.user_id
                   THEN set_status(step.payment, "pending") ELSE payments
    /\ step' = [step EXCEPT !.pc = "proof_clear"]
    /\ UNCHANGED <<balance, banned, hook, rzp, expiry, cancel, review, adjust, credits>>
    /\ UNCHANGED purchaseVars
    /\ UNCHANGED <<sent, flow, discounts, razorpay_state, secret, funding, products, qr>>

\* lines 2307-2309: clear the flow; the admins are then sent the proof
on_photo_clear ==
    /\ step.pc = "proof_clear"
    /\ flow' = [flow EXCEPT ![step.user_id] = set_flow(@, FlowNone)]
    /\ step' = [step EXCEPT !.pc = "done"]
    /\ UNCHANGED <<balance, banned>>
    /\ UNCHANGED purchaseVars
    /\ UNCHANGED paymentVars
    /\ UNCHANGED <<sent, discounts, razorpay_state, secret, funding, products, qr>>

\* ------------------------------------------------------------------ product steps
\* cb_admin_prod_edit lines 2994-2998: the flow takes the product id and the
\* field from the callback data, whatever they are
cb_admin_prod_edit(u, prod_id, field) ==
    /\ is_admin(u)
    /\ flow' = [flow EXCEPT ![u] =
                  set_flow(@, {<<"type", "admin_prod_edit">>, <<"product_id", prod_id>>,
                               <<"field", field>>})]
    /\ UNCHANGED <<balance, banned, payments, hook, rzp, expiry, cancel, review, adjust, credits>>
    /\ UNCHANGED purchaseVars
    /\ UNCHANGED <<sent, discounts, razorpay_state, secret, funding, products, step, qr>>

\* cb_admin_prod_add_cat lines 3033-3037
cb_admin_prod_add_cat(u, cat_id) ==
    /\ is_admin(u)
    /\ flow' = [flow EXCEPT ![u] =
                  set_flow(@, {<<"type", "admin_prod_add">>, <<"step", "name">>,
                               <<"category_id", cat_id>>})]
    /\ UNCHANGED <<balance, banned, payments, hook, rzp, expiry, cancel, review, adjust, credits>>
    /\ UNCHANGED purchaseVars
    /\ UNCHANGED <<sent, discounts, razorpay_state, secret, funding, products, step, qr>>

\* the ids of the products, in insertion order
ProductIds == <<"P1", "P2", "P3", "P4">>

\* the texts an admin sends in a product step; the prices that parse are whole
ProductTexts == {"", "abc", "1"}

\* Decimal(text.strip()) of lines 2198, 2205, 2258
decimal_ok(text) == text = "1"
decimal_value(text) == IF text = "1" THEN 1 ELSE 0

\* lines 2181: the flow lacks the product or names a field that is none of
\* name, inr, usd
prod_edit_expired(prod_id, field) == falsy(prod_id) \/ field \notin {"name", "inr", "usd"}

\* on_text lines 2178-2208: the admin sent the new value of a product field;
\* a flow that lacks a field is answered 'Session expired.' and the handler
\* returns, an unusable value is answered 'Invalid ...'
on_text_admin_prod_edit(u, text) ==
    /\ StepFree
    /\ ~banned[u]
    /\ is_admin(u)
    /\ FlowType(flow[u]) = "admin_prod_edit"
    /\ LET prod_id == FlowGetOrNone(flow[u], "product_id")
           field == FlowGetOrNone(flow[u], "field")
           pc == IF prod_edit_expired(prod_id, field) THEN "session_expired"
                 ELSE IF field = "name" /\ text = "" THEN "invalid"
                 ELSE IF field # "name" /\ ~decimal_ok(text) THEN "invalid"
                 ELSE "prod_update"
       IN step' = [IdleStep EXCEPT !.pc = pc, !.user_id = u,
                                   !.field = IF pc = "prod_update" THEN field ELSE None,
                                   !.value = IF pc = "prod_update" THEN text ELSE None,
                                   !.payment = IF pc = "prod_update" /\ prod_id = ProductIds[1]
                                               THEN 1 ELSE 0]
    /\ UNCHANGED <<balance, banned, flow>>
    /\ UNCHANGED purchaseVars
    /\ UNCHANGED paymentVars
    /\ UNCHANGED <<sent, discounts, razorpay_state, secret, funding, products, qr>>

\* line 2210: products.update_one({_id}, {$set: update})
on_text_admin_prod_update ==
    /\ step.pc = "prod_update"
    /\ products' =
         IF step.payment \notin 1..Len(products) THEN products
         ELSE [products EXCEPT ![step.payment] =
                 CASE step.field = "name" -> [@ EXCEPT !.name = step.value]
                   [] step.field = "inr" -> [@ EXCEPT !.price_inr = decimal_value(step.value)]
                   [] OTHER -> [@ EXCEPT !.price_usd = decimal_value(step.value)]]
    /\ step' = [step EXCEPT !.pc = "prod_clear"]
    /\ UNCHANGED <<balance, banned>>
    /\ UNCHANGED purchaseVars
    /\ UNCHANGED paymentVars
    /\ UNCHANGED <<sent, flow, discounts, razorpay_state, secret, funding, qr>>

\* lines 2211, 2250, 2272: clear the flow
on_text_admin_prod_clear ==
    /\ step.pc = "prod_clear"
    /\ flow' = [flow EXCEPT ![step.user_id] = set_flow(@, FlowNone)]
    /\ step' = [step EXCEPT !.pc = "done"]
    /\ UNCHANGED <<balance, banned>>
    /\ UNCHANGED purchaseVars
    /\ UNCHANGED paymentVars
    /\ UNCHANGED <<sent, discounts, razorpay_state, secret, funding, products, qr>>

\* on_text lines 2234-2262: the admin sent the name, then the price, of a new
\* product; a flow that lacks its step or its category is answered 'Session
\* expired.' and the handler returns
on_text_admin_prod_add(u, text) ==
    /\ StepFree
    /\ ~banned[u]
    /\ is_admin(u)
    /\ FlowType(flow[u]) = "admin_prod_add"
    /\ LET stp == FlowGetOrNone(flow[u], "step")
           cat_id == FlowGetOrNone(flow[u], "category_id")
       IN IF falsy(stp) \/ falsy(cat_id)
          THEN /\ step' = [IdleStep EXCEPT !.pc = "session_expired", !.user_id = u]
               /\ UNCHANGED flow
          ELSE IF stp = "name"
          THEN IF text = ""
               THEN /\ step' = [IdleStep EXCEPT !.pc = "invalid", !.user_id = u]
                    /\ UNCHANGED flow
               ELSE /\ step' = [IdleStep EXCEPT !.pc = "done", !.user_id = u]
                    /\ flow' = [flow EXCEPT ![u] =
                                  set_flow(@, {<<"type", "admin_prod_add">>, <<"step", "usd">>,
                                               <<"category_id", cat_id>>, <<"name", text>>})]
          ELSE /\ step' = IF decimal_ok(text)
                          THEN [IdleStep EXCEPT !.pc = "prod_insert", !.user_id = u,
                                                !.field = FlowGetOrNone(flow[u], "name"),
                                                !.value = text]
                          ELSE [IdleStep EXCEPT !.pc = "invalid", !.user_id = u]
               /\ UNCHANGED flow
    /\ UNCHANGED <<balance, banned>>
    /\ UNCHANGED purchaseVars
    /\ UNCHANGED paymentVars
    /\ UNCHANGED <<sent, discounts, razorpay_state, secret, funding, products, qr>>

\* lines 2261-2271: insert the product
on_text_admin_prod_insert ==
    /\ step.pc = "prod_insert"
    /\ Len(products) < 1 + MaxInserts
    /\ products' = Append(products, [name |-> step.field, price_inr |-> 0,
                                     price_usd |-> decimal_value(step.value)])
    /\ step' = [step EXCEPT !.pc = "prod_clear"]
    /\ UNCHANGED <<balance, banned>>
    /\ UNCHANGED purchaseVars
    /\ UNCHANGED paymentVars
    /\ UNCHANGED <<sent, flow, discounts, razorpay_state, secret, funding, qr>>

\* ------------------------------------------------------------------ UPI QR codes
\* the QR code ids Razorpay returns: Q1 for the request that is pending at the
\* start, then one per request
Qrs == <<"Q2", "Q3", "Q4", "Q5">>
QrIds == {"Q1"} \cup {Qrs[k] : k \in Msgs}

NoQr == [pc |-> "absent", user_id |-> 0, remaining |-> 0, deleted |-> FALSE]
NewQr(user_id) == [pc |-> "poll", user_id |-> user_id, remaining |-> NPolls, deleted |-> FALSE]

\* handle_razorpay_payment lines 512-551: the loading message, then
\* create_upi_qr and fetch_qr_image: int(amount) raises of a nan, the requests
\* to Razorpay may fail; the `except` at 618 only logs
handle_razorpay_payment_create(k) ==
    /\ funding[k].pc = "qr"
    /\ \E pc \in (IF funding[k].amount.nan THEN {"failed"} ELSE {"qr_flow", "failed"}) :
          funding' = [funding EXCEPT ![k].pc = pc]
    /\ UNCHANGED <<balance, banned>>
    /\ UNCHANGED purchaseVars
    /\ UNCHANGED paymentVars
    /\ UNCHANGED <<sent, flow, discounts, razorpay_state, secret, products, step, qr>>

\* line 571: clear the flow
handle_razorpay_payment_flow(k) ==
    /\ funding[k].pc = "qr_flow"
    /\ flow' = [flow EXCEPT ![funding[k].user_id] = set_flow(@, FlowNone)]
    /\ funding' = [funding EXCEPT ![k].pc = "qr_send"]
    /\ UNCHANGED <<balance, banned>>
    /\ UNCHANGED purchaseVars
    /\ UNCHANGED paymentVars
    /\ UNCHANGED <<sent, discounts, razorpay_state, secret, products, step, qr>>

\* lines 597-616: send the QR message, store the request in RAZORPAY_STATE
\* (replacing the entry the user had), create the expiry task; send_photo may
\* raise
handle_razorpay_payment_send(k) ==
    /\ funding[k].pc = "qr_send"
    /\ \/ /\ funding' = [funding EXCEPT ![k].pc = "done"]
          /\ razorpay_state' = [razorpay_state EXCEPT ![funding[k].user_id] = Qrs[k]]
          /\ qr' = [qr EXCEPT ![Qrs[k]] = NewQr(funding[k].user_id)]
       \/ /\ funding' = [funding EXCEPT ![k].pc = "failed"]
          /\ UNCHANGED <<razorpay_state, qr>>
    /\ UNCHANGED <<balance, banned>>
    /\ UNCHANGED purchaseVars
    /\ UNCHANGED paymentVars
    /\ UNCHANGED <<sent, flow, discounts, secret, products, step>>

\* handle_razorpay_expiry lines 337-346: the timer goes on while the entry of
\* the user holds this QR code
timer_goes_on(state, q) == state = q

\* lines 333-385: one turn of the countdown loop: sleep, stop when the entry is
\* gone or holds another QR code, else edit the countdown
handle_razorpay_expiry_poll(q) ==
    /\ qr[q].pc = "poll"
    /\ qr' = [qr EXCEPT ![q] =
                IF ~timer_goes_on(razorpay_state[qr[q].user_id], q)
                THEN [@ EXCEPT !.pc = "stopped"]
                ELSE [@ EXCEPT !.remaining = @ - 1,
                               !.pc = IF qr[q].remaining - 1 = 0 THEN "delete" ELSE "poll"]]
    /\ UNCHANGED <<balance, banned>>
    /\ UNCHANGED purchaseVars
    /\ UNCHANGED paymentVars
    /\ UNCHANGED <<sent, flow, discounts, razorpay_state, secret, funding, products, step>>

\* lines 388-392: after the loop, delete the QR message
handle_razorpay_expiry_delete(q) ==
    /\ qr[q].pc = "delete"
    /\ qr' = [qr EXCEPT ![q].pc = "pop", ![q].deleted = TRUE]
    /\ UNCHANGED <<balance, banned>>
    /\ UNCHANGED purchaseVars
    /\ UNCHANGED paymentVars
    /\ UNCHANGED <<sent, flow, discounts, razorpay_state, secret, funding, products, step>>

\* lines 395-396: if user_id in RAZORPAY_STATE: pop
expiry_pops(state, q) == state # None

\* lines 394-406: drop the entry of the user, send 'Payment Expired'
handle_razorpay_expiry_pop(q) ==
    /\ qr[q].pc = "pop"
    /\ razorpay_state' =
         IF expiry_pops(razorpay_state[qr[q].user_id], q)
         THEN [razorpay_state EXCEPT ![qr[q].user_id] = None] ELSE razorpay_state
    /\ qr' = [qr EXCEPT ![q].pc = "expired"]
    /\ UNCHANGED <<balance, banned>>
    /\ UNCHANGED purchaseVars
    /\ UNCHANGED paymentVars
    /\ UNCHANGED <<sent, flow, discounts, secret, funding, products, step>>

\* cb_cancel_razorpay lines 2350-2373: the user pressed Cancel under the
\* message of QR code q: the entry is dropped when it holds q, the message is
\* deleted
cb_cancel_razorpay(u, q) ==
    /\ qr[q].pc # "absent"
    /\ qr[q].user_id = u
    /\ ~qr[q].deleted
    /\ razorpay_state' =
         IF razorpay_state[u] = q THEN [razorpay_state EXCEPT ![u] = None]
         ELSE razorpay_state
    /\ qr' = [qr EXCEPT ![q].deleted = TRUE]
    /\ UNCHANGED <<balance, banned>>
    /\ UNCHANGED purchaseVars
    /\ UNCHANGED paymentVars
    /\ UNCHANGED <<sent, flow, discounts, secret, funding, products, step>>

\* ------------------------------------------------------------------ specifications
\* the references the $inc of a balance are counted by
Refs == {Tracks[k] : k \in DOMAIN Tracks} \cup {"R1", "R9", "manual"}

InitHandlers ==
    /\ hook = [h \in Hooks |-> [pc |-> "idle",
                            data |-> [track_id |-> None, status |-> None, amount |-> NoAmount],
                            payment |-> 0, modified |-> FALSE]]
    /\ rzp = [r \in RzpHooks |-> [pc |-> "idle", event |-> None, payment_id |-> None,
                                   user_id |-> 0, amount |-> NoAmount, signed |-> FALSE]]
    /\ cancel = [pc |-> "idle"]
    /\ review = [pc |-> "idle", payment |-> 0, amount |-> 0]
    /\ adjust = [pc |-> "idle"]
    /\ credits = [ref \in Refs |-> 0]
    /\ sent = [kind \in {"received", "expired", "cancelled"} |-> 0]
    /\ razorpay_state = [u \in Users |-> IF u = 1 THEN "Q1" ELSE None]
    /\ funding = [k \in Msgs |-> IdleMsg]
    /\ products = <<[name |-> "abc", price_inr |-> 0, price_usd |-> UnitPrice]>>
    /\ step = IdleStep
    /\ qr = [q \in QrIds |-> IF q = "Q1" THEN NewQr(1) ELSE NoQr]

\* the OxaPay payment of user 1 is pending and its expiry task is running
InitPayments ==
    /\ payments = <<oxapay_payment_doc>>
    /\ expiry = [pc |-> "poll", remaining |-> NPolls, wrote |-> FALSE, edits |-> 0,
                 deleted |-> FALSE]
    /\ InitHandlers

\* upsert_user creates users without a flow; m.discounts starts empty
InitAdmin ==
    /\ flow = [u \in Users |-> FlowNone]
    /\ discounts = NoDiscountDoc

\* config.RAZORPAY_WEBHOOK_SECRET as shipped
InitConfig == secret = "change-me"

Init == InitPurchase /\ InitPayments /\ InitAdmin /\ InitConfig

\* one delivery to /oxapay/webhook
oxapay_webhook(h) ==
    \/ \E data \in OxaEvents : oxapay_webhook_find(h, data)
    \/ oxapay_webhook_update(h)
    \/ oxapay_webhook_credit(h)
    \/ oxapay_webhook_notify(h)

\* the steps of a delivery after the lookup
oxapay_webhook_apply(h) ==
    \/ oxapay_webhook_update(h)
    \/ oxapay_webhook_credit(h)
    \/ oxapay_webhook_notify(h)

\* a delivery of an event about a transfer that is not settled yet
oxapay_webhook_intermediate(h) ==
    \E data \in OxaIntermediateEvents : oxapay_webhook_find(h, data)

\* a delivery of a body that lacks a field
oxapay_webhook_malformed(h) ==
    \E data \in OxaMalformedEvents : oxapay_webhook_find(h, data)

\* one delivery to /razorpay/webhook
razorpay_webhook(r) ==
    \/ \E body \in RzpBodies : razorpay_webhook_find(r, body, hmac_sha256(secret, body))
    \/ razorpay_webhook_insert(r)
    \/ razorpay_webhook_credit(r)
    \/ razorpay_webhook_cleanup(r)

\* one amount message of user u in flow await_amount (oxapay)
handle_oxapay_payment(k, u) ==
    \/ \E text \in Texts : on_text_await_amount(k, u, text)
    \/ handle_oxapay_payment_create(k)
    \/ handle_oxapay_payment_insert(k)
    \/ handle_oxapay_payment_send(k)
    \/ handle_oxapay_payment_except(k)

handle_oxapay_expiry ==
    \/ handle_oxapay_expiry_poll
    \/ handle_oxapay_expiry_read
    \/ handle_oxapay_expiry_write
    \/ handle_oxapay_expiry_notify

cb_cancel_oxapay ==
    \/ cb_cancel_oxapay_read
    \/ cb_cancel_oxapay_write
    \/ cb_cancel_oxapay_notify

cb_admin_pay_action ==
    \/ \E i \in 1..Len(payments), action \in {"approve", "reject"} :
          cb_admin_pay_action_read(i, action)
    \/ cb_admin_pay_action_approve
    \/ cb_admin_pay_action_credit
    \/ cb_admin_pay_action_reject

NextOxapay == \E h \in Hooks : oxapay_webhook(h)
NextRazorpay == \E r \in RzpHooks : razorpay_webhook(r)
NextRaise ==
    \/ \E h \in Hooks : oxapay_webhook_raise(h)
    \/ \E r \in RzpHooks : razorpay_webhook_raise(r)
NextAdjust ==
    \/ \E u, target_id \in Users, action \in {"addbal", "subbal"} :
          cb_admin_user_action(u, target_id, action)
    \/ \E u \in Users, amt \in AdjustAmounts : on_text_admin_user_balance(u, amt)

NextBan ==
    \E u, target_id \in Users, action \in {"ban", "unban"} :
        cb_admin_user_action(u, target_id, action)

\* the flow starts and steps of admins and users
NextFlow ==
    \/ \E u \in Users, method \in {"oxapay", "razorpay"} : cb_pay_method(u, method)
    \/ \E u \in Users : cb_admin_stock_prod(u)
    \/ \E u \in Users : on_text_await_stock_email(u)
    \/ \E u \in Users : on_text_await_stock_password(u)
    \/ \E u \in Users : cb_admin_disc_for(u)
    \/ NextAdjust

\* an admin setting the discount rules of the product
NextDiscountRules ==
    \/ \E u \in Users : cb_admin_disc_for(u)
    \/ \E u \in Users, lines \in RuleLines : on_text_admin_discount_rules(u, lines)

\* the steps of a delivery to /razorpay/webhook after the lookup
razorpay_webhook_apply(r) ==
    \/ razorpay_webhook_insert(r)
    \/ razorpay_webhook_credit(r)
    \/ razorpay_webhook_cleanup(r)

\* a delivery of payment.authorized: the payment is not captured yet
razorpay_webhook_authorized(r) ==
    \E body \in {b \in RzpBodies : b.event = "payment.authorized"} :
        razorpay_webhook_find(r, body, hmac_sha256(secret, body))

\* a delivery of a settlement event that lacks a field
razorpay_webhook_malformed(r) ==
    \E body \in MalformedBodies : razorpay_webhook_find(r, body, hmac_sha256(secret, body))

\* deliveries to /razorpay/webhook for a payment no funding of the bot started
razorpay_webhook_foreign(r) ==
    \E body \in ForeignBodies : razorpay_webhook_find(r, body, hmac_sha256(secret, body))

\* requests to /razorpay/webhook that the provider did not sign
razorpay_webhook_unsigned(r) ==
    \E body \in RzpBodies \cup ForeignBodies :
        \E signature \in BadSignatures(body) : razorpay_webhook_find(r, body, signature)

Next ==
    \/ NextPurchase
    \/ NextOxapay
    \/ NextRazorpay
    \/ NextRaise
    \/ handle_oxapay_expiry
    \/ cb_cancel_oxapay
    \/ cb_admin_pay_action
    \/ NextFlow
    \/ NextDiscountRules
    \/ \E r \in RzpHooks : razorpay_webhook_foreign(r) \/ razorpay_webhook_unsigned(r)

\* every handler and task of the program, interleaved at their awaits
Spec == Init /\ [][Next]_vars

\* the purchases alone
SpecPurchase == Init /\ [][NextPurchase]_vars

\* concurrent deliveries to the two webhook endpoints
NextWebhooks == NextOxapay \/ NextRazorpay
SpecWebhooks == Init /\ [][NextWebhooks]_vars

\* deliveries whose handler may raise at a store call, and redeliveries
NextRedelivery == NextOxapay \/ NextRazorpay \/ NextRaise
SpecRedelivery == Init /\ [][NextRedelivery]_vars

\* the OxaPay payment and everything that writes its status
NextOxapayPayment == NextOxapay \/ handle_oxapay_expiry \/ cb_cancel_oxapay \/ cb_admin_pay_action
SpecOxapayPayment == Init /\ [][NextOxapayPayment]_vars

\* one of everything that writes a balance: a purchase, a webhook delivery,
\* an admin review and an admin balance adjustment
NextWallet ==
    purchase_transaction(1) \/ oxapay_webhook(1) \/ cb_admin_pay_action \/ NextAdjust
SpecWallet == Init /\ [][NextWallet]_vars

\* the handlers that are between two of their store calls
Busy ==
    {<<"hook", h>> : h \in {x \in Hooks : hook[x].pc \in {"update", "credit", "notify"}}}
    \cup {<<"rzp", r>> : r \in {x \in RzpHooks : rzp[x].pc \in {"insert", "credit", "cleanup"}}}
    \cup (IF expiry.pc \in {"write", "notify"} THEN {<<"expiry", 0>>} ELSE {})
    \cup (IF cancel.pc \in {"write", "notify"} THEN {<<"cancel", 0>>} ELSE {})

\* deliveries handled one after another: a handler starts only when no other
\* handler is between two of its store calls
NextReplay ==
    \/ \E h \in Hooks : Busy \subseteq {<<"hook", h>>} /\ oxapay_webhook(h)
    \/ \E r \in RzpHooks : Busy \subseteq {<<"rzp", r>>} /\ razorpay_webhook(r)
    \/ Busy \subseteq {<<"expiry", 0>>} /\ handle_oxapay_expiry
    \/ Busy \subseteq {<<"cancel", 0>>} /\ cb_cancel_oxapay
SpecReplay == Init /\ [][NextReplay]_vars

\* the flows alone
SpecFlow == Init /\ [][NextFlow]_vars

\* one purchase of user 1, priced under the rules an admin sets
NextDiscount ==
    \/ NextDiscountRules
    \/ \E qty \in 1..MaxQty : cb_confirm_check(1, 1, qty)
    \/ purchase_transaction_session(1)
SpecDiscount == Init /\ [][NextDiscount]_vars

\* one purchase and one delivery of a settlement
NextPurchaseCredit == purchase_transaction(1) \/ oxapay_webhook(1)
SpecPurchaseCredit == Init /\ [][NextPurchaseCredit]_vars

\* the Razorpay endpoint receiving events for payments of the merchant account
\* that the bot did not start
NextForeign == \E r \in RzpHooks : razorpay_webhook(r) \/ razorpay_webhook_foreign(r)
SpecForeign == Init /\ [][NextForeign]_vars

\* the Razorpay endpoint receiving unsigned requests, under each configuration
\* of the webhook secret
InitSignature ==
    /\ InitPurchase /\ InitPayments /\ InitAdmin
    /\ secret \in {"change-me", ""}
NextSignature == \E r \in RzpHooks : razorpay_webhook(r) \/ razorpay_webhook_unsigned(r)
SpecSignature == InitSignature /\ [][NextSignature]_vars

\* the two endpoints receiving events about a transfer that is not settled yet
NextIntermediate ==
    \/ \E h \in Hooks : oxapay_webhook_intermediate(h) \/ oxapay_webhook_apply(h)
    \/ \E r \in RzpHooks : razorpay_webhook_authorized(r)
SpecIntermediate == Init /\ [][NextIntermediate]_vars

\* the OxaPay endpoint receiving complete bodies and bodies that lack a field
NextMalformedOxapay == \E h \in Hooks : oxapay_webhook(h) \/ oxapay_webhook_malformed(h)
SpecMalformedOxapay == Init /\ [][NextMalformedOxapay]_vars

\* the Razorpay endpoint receiving complete events and events that lack a field
NextMalformedRazorpay == \E r \in RzpHooks : razorpay_webhook(r) \/ razorpay_webhook_malformed(r)
SpecMalformedRazorpay == Init /\ [][NextMalformedRazorpay]_vars

\* settlements arriving for a user who may have started a funding flow before
\* the delivery is handled
NextFundingFlow ==
    \/ Busy = {} /\ \E method \in {"oxapay", "razorpay"} : cb_pay_method(1, method)
    \/ NextWebhooks
SpecFundingFlow == Init /\ [][NextFundingFlow]_vars

\* one purchase while an admin bans and unbans users
NextBanned == purchase_transaction(1) \/ NextBan
SpecBanned == Init /\ [][NextBanned]_vars

\* one purchase while an admin adds to and subtracts from balances
NextBalanceCheck == purchase_transaction(1) \/ NextAdjust
SpecBalanceCheck == Init /\ [][NextBalanceCheck]_vars

\* the purchases of a product that has more items than the low-stock threshold
InitLowStock ==
    /\ balance = [u \in Users |-> StartBalance * Hundred]
    /\ banned = [u \in Users |-> FALSE]
    /\ stocks = [i \in 1..(LowStock + MaxQty) |-> [status |-> "available", sold_to |-> 0]]
    /\ orders = <<>>
    /\ tx = [t \in Txs |-> IdleTx]
    /\ InitPayments /\ InitAdmin /\ InitConfig
\* two concurrent purchases, each followed by its low-stock alert
NextLowStock ==
    \E t \in {1, NTx} : purchase_transaction(t) \/ purchase_transaction_alert(t)
SpecLowStock == InitLowStock /\ [][NextLowStock]_vars

\* a funding request by OxaPay from its start: no Payment exists yet and no
\* expiry task runs
InitFunding ==
    /\ InitPurchase /\ InitHandlers /\ InitAdmin /\ InitConfig
    /\ payments = <<>>
    /\ expiry = [pc |-> "absent", remaining |-> NPolls, wrote |-> FALSE, edits |-> 0,
                 deleted |-> FALSE]

\* the user asks for an OxaPay payment; once the payment message is shown they
\* may pay (the provider then calls the webhook) or cancel; the expiry task
\* runs once it is created
NextFunding ==
    \/ cb_pay_method(oxapay_payment_doc.user_id, "oxapay")
    \/ handle_oxapay_payment(1, oxapay_payment_doc.user_id)
    \/ handle_oxapay_expiry
    \/ funding[1].pc = "done" /\ cb_cancel_oxapay
    \/ funding[1].pc = "done" /\ NextOxapay

\* the event loop runs every coroutine and task that is ready: the handler of
\* the funding request and the expiry task go on; the payer and the provider
\* are under no obligation
SpecFunding ==
    /\ InitFunding
    /\ [][NextFunding]_vars
    /\ WF_vars(handle_oxapay_payment(1, oxapay_payment_doc.user_id))
    /\ WF_vars(handle_oxapay_expiry)

\* one amount message of a user in flow await_amount (razorpay)
handle_razorpay_payment(k) ==
    \/ handle_razorpay_payment_create(k)
    \/ handle_razorpay_payment_flow(k)
    \/ handle_razorpay_payment_send(k)

\* one amount message of a user in flow await_amount (a manual method)
on_text_manual(k) ==
    \/ on_text_manual_insert(k)
    \/ on_text_manual_flow(k)

\* user 1 picks a method and sends amounts, usable or not
NextAmount ==
    \/ \E method \in PAYMENTS : cb_pay_amount(1, method)
    \/ \E k \in Msgs : handle_oxapay_payment(k, 1)
    \/ \E k \in Msgs : handle_razorpay_payment(k)
    \/ \E k \in Msgs : on_text_manual(k)
SpecAmount == InitFunding /\ [][NextAmount]_vars

\* user 1 pressed the OxaPay method (cb_pay_method wrote the flow) and no
\* Payment exists yet
InitAmountRace ==
    /\ InitPurchase /\ InitHandlers /\ InitConfig
    /\ discounts = NoDiscountDoc
    /\ flow = [u \in Users |->
                 IF u = 1 THEN {<<"type", "await_amount">>, <<"method", "oxapay">>}
                 ELSE FlowNone]
    /\ payments = <<>>
    /\ expiry = [pc |-> "absent", remaining |-> NPolls, wrote |-> FALSE, edits |-> 0,
                 deleted |-> FALSE]

\* the amount messages of user 1, each handled in a task of its own
\* (dp.start_polling handles updates as tasks)
NextAmountRace == \E k \in Msgs : handle_oxapay_payment(k, 1)
SpecAmountRace == InitAmountRace /\ [][NextAmountRace]_vars

\* the photo of a proof, handled step by step
on_photo ==
    \/ \E u \in Users : on_photo_read(u)
    \/ on_photo_update
    \/ on_photo_clear

\* the callback data of the product buttons, as the bot builds them and as a
\* client may send them
ProdEditData == {"P1", ""} \X {"name", "inr", "usd", "x"}
CategoryData == {"C1", ""}

\* an admin editing and adding products
NextProducts ==
    \/ \E u \in Users, d \in ProdEditData : cb_admin_prod_edit(u, d[1], d[2])
    \/ \E u \in Users, cat_id \in CategoryData : cb_admin_prod_add_cat(u, cat_id)
    \/ \E u \in Users, text \in ProductTexts : on_text_admin_prod_edit(u, text)
    \/ on_text_admin_prod_update
    \/ on_text_admin_prod_clear
    \/ \E u \in Users, text \in ProductTexts : on_text_admin_prod_add(u, text)
    \/ on_text_admin_prod_insert

\* the steps of the flows that carry fields: a user funding by a manual method
\* and sending the proof, an admin editing and adding products
NextSteps ==
    \/ cb_pay_amount(NUsers, "upi")
    \/ \E text \in Texts : on_text_await_amount(1, NUsers, text)
    \/ on_text_manual(1)
    \/ on_photo
    \/ NextProducts
SpecSteps == InitFunding /\ [][NextSteps]_vars

\* a user funding by a manual method, their proof, and the admin's review
NextManual ==
    \/ cb_pay_amount(1, "upi")
    \/ \E k \in Msgs, text \in Texts : on_text_await_amount(k, 1, text)
    \/ \E k \in Msgs : on_text_manual(k)
    \/ on_photo
    \/ cb_admin_pay_action
SpecManual == InitFunding /\ [][NextManual]_vars

\* a delivery of a settlement body with any amount field
oxapay_webhook_amount(h) ==
    \/ \E data \in OxaAmountEvents : oxapay_webhook_find(h, data)
    \/ oxapay_webhook_apply(h)

\* concurrent deliveries to /oxapay/webhook that differ in the amount field
NextAmountField == \E h \in Hooks : oxapay_webhook_amount(h)
SpecAmountField == Init /\ [][NextAmountField]_vars

\* the countdown task of QR code q
handle_razorpay_expiry(q) ==
    \/ handle_razorpay_expiry_poll(q)
    \/ handle_razorpay_expiry_delete(q)
    \/ handle_razorpay_expiry_pop(q)

\* the QR code a UPI payment was made on (qr_code.get('id') of the event):
\* "R1" was paid on the code that is pending at the start
qr_code_id(payment_id) == "Q1"

\* user 1 asks for UPI QR codes, one after another while the earlier ones are
\* still open; each code may be paid, cancelled, or run out
NextQr ==
    \/ cb_pay_method(1, "razorpay")
    \/ \E k \in Msgs, text \in Texts : on_text_await_amount(k, 1, text)
    \/ \E k \in Msgs : handle_razorpay_payment(k)
    \/ \E q \in QrIds : handle_razorpay_expiry(q)
    \/ \E q \in QrIds : cb_cancel_razorpay(1, q)
    \/ razorpay_webhook(1)
SpecQr == InitFunding /\ [][NextQr]_vars

\* a user whose wallet is empty and whose OxaPay payment is pending
InitUnit ==
    /\ balance = [u \in Users |-> 0]
    /\ banned = [u \in Users |-> FALSE]
    /\ stocks = [i \in StockIds |-> [status |-> "available", sold_to |-> 0]]
    /\ orders = <<>>
    /\ tx = [t \in Txs |-> IdleTx]
    /\ InitPayments /\ InitAdmin /\ InitConfig

\* the payment is settled and the user buys with what it credited
NextUnit == oxapay_webhook(1) \/ NextPurchase
SpecUnit == InitUnit /\ [][NextUnit]_vars

\* ------------------------------------------------------------------ properties
SoldItems == {i \in DOMAIN stocks : stocks[i].status = "sold"}
OrdersListing(i) == {k \in 1..Len(orders) : i \in SeqToSet(orders[k].delivered)}

RECURSIVE SumTotal(_, _)
SumTotal(os, u) ==
    IF os = <<>> THEN 0
    ELSE (IF Head(os).user_id = u THEN Head(os).total ELSE 0) + SumTotal(Tail(os), u)

\* C1: no oversell. The quantities of the purchases that succeeded (one Order
\* each) sum to at most the N items that were available, and the number of
\* items with status sold equals that sum, in every state of every
\* interleaving of the concurrent purchase_transaction calls.
C1_NoOversell ==
    /\ SumQty(orders) <= NStock
    /\ Cardinality(SoldItems) = SumQty(orders)

\* two purchases raced for the same items: one committed, the other aborted
C1_Witness ==
    /\ Len(orders) >= 1
    /\ \E t \in Txs : tx[t].pc = "conflict"

SettledOxa == [track_id |-> "T1", status |-> "paid", amount |-> Number(AmountUsd)]
OxaDelivered == {h \in Hooks : hook[h].data = SettledOxa /\ hook[h].pc \in {"done", "already"}}
RzpDelivered == {r \in RzpHooks : rzp[r].pc \in {"cleanup", "done", "duplicate"}}

\* C2: no double credit on replay. When the deliveries of one settlement event
\* are handled one after another, the balance is incremented exactly once for
\* it, at the OxaPay endpoint and at the Razorpay endpoint: never twice, and
\* once as soon as one delivery has been handled.
C2_NoDoubleCreditOnReplay ==
    /\ credits["T1"] <= 1
    /\ credits["R1"] <= 1
    /\ OxaDelivered # {} => credits["T1"] = 1
    /\ RzpDelivered # {} => credits["R1"] = 1

\* the event was delivered twice to each endpoint
C2_Witness ==
    /\ Cardinality(OxaDelivered) >= 2
    /\ Cardinality(RzpDelivered) >= 2
    /\ balance[1] = (StartBalance + AmountUsd * USD_TO_INR_RATE + AmountPaise \div 100) * Hundred

Modified == {h \in Hooks : hook[h].modified}

\* C3: of the concurrent deliveries that read the payment as pending, exactly
\* one gets modified_count > 0 from the conditional update, and the balance is
\* incremented by that one only: once it has passed its $inc, the payment has
\* been credited once, and no other delivery credits.
C3_ConditionalUpdateGate ==
    /\ Cardinality(Modified) <= 1
    /\ (\E h \in Hooks : hook[h].pc \in {"credit", "notify", "done"}) => Cardinality(Modified) = 1
    /\ credits["T1"] = Cardinality({h \in Modified : hook[h].pc \in {"notify", "done"}})

\* two deliveries both passed the early status check, both ran the update
C3_Witness ==
    \E h1, h2 \in Hooks :
        /\ h1 # h2
        /\ hook[h1].pc = "done" /\ hook[h1].modified
        /\ hook[h2].pc = "done" /\ ~hook[h2].modified
        /\ credits["T1"] = 1

ApprovedRazorpay ==
    {i \in 1..Len(payments) :
        payments[i].razorpay_payment_id = "R1" /\ payments[i].status = "approved"}

\* C4: for one Razorpay payment id at most one approved Payment record exists
\* and the wallet is credited at most once, whatever the interleaving of the
\* deliveries (payment.captured and qr_code.credited carry the same id).
C4_OneApprovedPerRazorpayId ==
    /\ Cardinality(ApprovedRazorpay) <= 1
    /\ credits["R1"] <= 1

OxaEnded == \A h \in Hooks : hook[h].data = SettledOxa /\ hook[h].pc \in {"done", "already", "raised"}
RzpEnded == \A r \in RzpHooks : rzp[r].event = "payment.captured" /\ rzp[r].pc \in {"done", "duplicate", "raised"}

\* C5: exactly-once credit. Once every delivery and redelivery of the
\* settlement event has ended, a payment that is approved has had its credit
\* applied, also when a handler failed between the two writes.
C5_ApprovedIsCredited ==
    /\ (OxaEnded /\ payments[1].status = "approved") => credits["T1"] >= 1
    /\ (RzpEnded /\ ApprovedRazorpay # {}) => credits["R1"] >= 1

\* C6: every user's balance is >= 0 in every reachable state.
C6_BalanceNonNegative == \A u \in Users : balance[u] >= 0

\* C7: purchase is all-or-nothing. In every state, an item is sold only if
\* exactly one Order lists it and that Order is the buyer's; every item an
\* Order lists is sold; an Order lists as many items as its quantity; and each
\* user has been debited exactly the totals of their Orders.
C7_AllOrNothing ==
    /\ \A i \in SoldItems :
          /\ Cardinality(OrdersListing(i)) = 1
          /\ \A k \in OrdersListing(i) : orders[k].user_id = stocks[i].sold_to
    /\ \A k \in 1..Len(orders) :
          /\ SeqToSet(orders[k].delivered) \subseteq SoldItems
          /\ Len(orders[k].delivered) = orders[k].qty
    /\ \A u \in Users : balance[u] = StartBalance * Hundred - SumTotal(orders, u)

\* both users bought
C7_Witness ==
    /\ Len(orders) = 2
    /\ orders[1].user_id # orders[2].user_id
    /\ Cardinality(SoldItems) = NStock

\* C8: a purchase that fails for lack of stock changes no stock item, no
\* balance and no Order: the step in which it fails leaves all three as they
\* were (and it is the first step of that purchase that touches the store).
C8_NoStockNoChange ==
    [][(\E t \in Txs : tx[t].pc = "confirmed" /\ tx'[t].pc = "no_stock")
          => UNCHANGED <<stocks, balance, orders>>]_vars

\* a purchase failed for lack of stock while some, but too few, items were left
C8_Witness ==
    \E t \in Txs :
        /\ tx[t].pc = "no_stock"
        /\ tx[t].qty = 2
        /\ Cardinality(SoldItems) = NStock - 1

\* C9: expiry race. Once a webhook delivery has won the conditional update
\* (the payment is approved), the payment's status is never expired.
C9_ApprovedNeverExpired ==
    Modified # {} => payments[1].status # "expired"

Terminal == {"approved", "rejected", "cancelled", "expired"}

\* C10: terminal payment states are final: no step changes the status of a
\* payment that is approved, rejected, cancelled or expired.
C10_TerminalIsFinal ==
    [][\A i \in 1..Len(payments) :
          payments[i].status \in Terminal => payments'[i].status = payments[i].status]_vars

\* C11: for the OxaPay payment at most one outcome is reported to the payer:
\* at most one of the notifications "Payment received", "Payment Expired" and
\* "Payment Cancelled" is ever sent, and "Payment Expired" is sent only when
\* the expiry task itself changed the status from pending to expired.
C11_OneOutcomeReported ==
    /\ Cardinality({kind \in DOMAIN sent : sent[kind] > 0}) <= 1
    /\ sent["expired"] > 0 => expiry.wrote

\* the percents of the rules of the document that apply to qty
ApplicablePercents(doc, qty) ==
    {doc.rules[i].percent : i \in {j \in DOMAIN doc.rules : doc.rules[j].min_qty <= qty}}
MaxPercent(doc, qty) ==
    IF ~doc.exists \/ ApplicablePercents(doc, qty) = {} THEN 0
    ELSE CHOOSE x \in ApplicablePercents(doc, qty) : \A y \in ApplicablePercents(doc, qty) : y <= x
ExampleRules == <<[min_qty |-> 3, percent |-> 5], [min_qty |-> 10, percent |-> 10]>>
ExampleRulesReversed == <<[min_qty |-> 10, percent |-> 10], [min_qty |-> 3, percent |-> 5]>>

\* C12: best_discount_percent(product, qty) is the maximum percent over the
\* rules whose min_qty <= qty, whatever the order of the rules and whichever
\* rule has the larger threshold, and 0 when no rule applies or the product
\* has no discount document: every purchase is priced with that percent, and
\* rules {3: 5%, 10: 10%} give 10 for qty 12, in either order.
C12_BestDiscountIsMax ==
    [][/\ \A t \in Txs :
             (tx[t].pc = "idle" /\ tx'[t].pc = "confirmed")
                 => tx'[t].percent = MaxPercent(discounts, tx'[t].qty)
       /\ best_discount_percent([exists |-> TRUE, rules |-> ExampleRules], 12) = 10
       /\ best_discount_percent([exists |-> TRUE, rules |-> ExampleRulesReversed], 12) = 10
       /\ best_discount_percent([exists |-> TRUE, rules |-> ExampleRules], 2) = 0
       /\ best_discount_percent(NoDiscountDoc, 12) = 0]_vars

\* two rules apply, the one with the smaller threshold has the larger percent
C12_Witness ==
    /\ Len(discounts.rules) = 2
    /\ discounts.rules[1].min_qty < discounts.rules[2].min_qty
    /\ discounts.rules[1].percent > discounts.rules[2].percent
    /\ tx[1].pc # "idle"
    /\ tx[1].qty >= discounts.rules[2].min_qty
    /\ tx[1].percent = discounts.rules[1].percent

\* C13: a purchase of qty units that succeeds charges
\* total = unitPrice * qty * (1 - bestDiscountPercent / 100): the step in which
\* it commits lowers the buyer's balance by exactly that total, adds exactly
\* one Order with that qty, that total and qty delivered payloads, and turns
\* exactly qty stock items to sold.
C13_PurchaseCharge ==
    [][\A t \in Txs :
          (tx[t].pc = "commit" /\ tx'[t].pc = "done") =>
              LET u == tx[t].user_id
                  qty == tx[t].qty
                  total == UnitPrice * qty * (Hundred - tx[t].percent)
              IN /\ balance'[u] = balance[u] - total
                 /\ \A o \in Users \ {u} : balance'[o] = balance[o]
                 /\ Len(orders') = Len(orders) + 1
                 /\ SubSeq(orders', 1, Len(orders)) = orders
                 /\ orders'[Len(orders')].user_id = u
                 /\ orders'[Len(orders')].qty = qty
                 /\ orders'[Len(orders')].total = total
                 /\ Len(orders'[Len(orders')].delivered) = qty
                 /\ Cardinality(SoldItems') = Cardinality(SoldItems) + qty]_vars

\* 2 units bought at 10% off: 2 * UnitPrice * 0.9 charged, one Order, 2 items sold
C13_Witness ==
    /\ tx[1].pc = "done"
    /\ tx[1].qty = 2
    /\ tx[1].percent = 10
    /\ Len(orders) = 1
    /\ orders[1].total = UnitPrice * 2 * 90
    /\ balance[tx[1].user_id] = StartBalance * Hundred - UnitPrice * 2 * 90
    /\ Cardinality(SoldItems) = 2

\* C14: a stock item goes from available to sold at most once and never back:
\* no step changes the status or the buyer of an item that is sold, and no
\* item is listed in the delivered payloads of two Orders.
C14_SoldOnce ==
    [][/\ \A i \in DOMAIN stocks : stocks[i].status = "sold" => stocks'[i] = stocks[i]
       /\ \A i \in DOMAIN stocks' :
             Cardinality({k \in 1..Len(orders') : i \in SeqToSet(orders'[k].delivered)}) <= 1]_vars

\* a later purchase committed after the first items were sold, while another
\* item was already sold
C14_Witness ==
    /\ Len(orders) = 2
    /\ SeqToSet(orders[1].delivered) \cap SeqToSet(orders[2].delivered) = {}
    /\ \A t \in Txs : tx[t].pc = "done"
    /\ Cardinality(SoldItems) = orders[1].qty + orders[2].qty

\* the fields of a flow document, per type
FlowShape(type) ==
    CASE type = "await_amount" -> {"type", "method"}
      [] type = "await_stock_email" -> {"type", "product_id"}
      [] type = "await_stock_password" -> {"type", "product_id", "email"}
      [] type = "admin_discount_rules" -> {"type", "product_id"}
      [] type = "admin_user_balance" -> {"type", "target_id", "op"}
      [] OTHER -> {}

\* C15: every user has at most one flow state, and a transition replaces the
\* whole value: the flow is None or one document that holds the type and the
\* payload of the flow started or advanced last, each field once, and no
\* field of an earlier flow.
C15_FlowReplaced ==
    \A u \in Users :
        \/ flow[u] = FlowNone
        \/ /\ Cardinality(flow[u]) = Cardinality(FlowFields(flow[u]))
           /\ "type" \in FlowFields(flow[u])
           /\ FlowFields(flow[u]) = FlowShape(FlowType(flow[u]))

\* the admin advanced the stock flow by a step while a user is in a funding flow
C15_Witness ==
    /\ FlowType(flow[1]) = "await_stock_password"
    /\ FlowType(flow[2]) = "await_amount"
    /\ Len(stocks) = NStock + 1

OxaCredited == \E h \in Hooks : hook[h].modified /\ hook[h].pc \in {"notify", "done"}
RzpCredited == \E r \in RzpHooks : rzp[r].pc \in {"cleanup", "done"}

C17_NoLostUpdate ==
    /\ \A u \in Users :
          balance[u] = StartBalance * Hundred
                         + (IF u = 1 /\ OxaCredited THEN AmountUsd * USD_TO_INR_RATE * Hundred ELSE 0)
                         - SumTotal(orders, u)
    /\ \A t \in Txs :
          tx[t].pc \in {"update", "debit", "commit", "done"} => tx[t].seen >= tx[t].total
    /\ \A u \in Users : balance[u] >= 0

\* the credit landed between the purchase's read and its $inc: the purchase
\* failed with a write conflict and the credit stayed
C17_Witness ==
    /\ tx[1].pc = "conflict"
    /\ tx[1].user_id = 1
    /\ OxaCredited
    /\ orders = <<>>
    /\ balance[1] = (StartBalance + AmountUsd * USD_TO_INR_RATE) * Hundred

\* no Payment of method oxapay is stored under this track id
NoOxapayPaymentFor(track_id) ==
    \A i \in 1..Len(payments) :
        payments[i].method = "oxapay" => payments[i].oxapay_track_id # track_id

\* C18: an OxaPay webhook whose track_id matches no stored Payment, or matches
\* a Payment whose method is not oxapay, is answered ok: false, and the step
\* that handles it changes no Payment and no balance; the request ends there.
C18_UnknownTrackRejected ==
    [][\A h \in Hooks :
          /\ (/\ hook[h].pc = "idle"
              /\ hook'[h].pc # "idle"
              /\ NoOxapayPaymentFor(hook'[h].data.track_id)) =>
                /\ ~oxapay_webhook_ok(hook'[h].pc)
                /\ UNCHANGED <<payments, balance>>
          /\ (hook[h].pc # "idle" /\ NoOxapayPaymentFor(hook[h].data.track_id)) =>
                hook'[h] = hook[h]]_vars

\* one request named no stored track id, another matched the Razorpay record
C18_Witness ==
    \E h1, h2 \in Hooks :
        /\ hook[h1].pc = "not_found"
        /\ hook[h2].pc = "invalid_method"
        /\ payments[hook[h2].payment].method = "razorpay"

\* C19: a Razorpay settlement event whose reference matches nothing this
\* system created when a funding was started is rejected: it creates no
\* Payment record and credits no wallet.
C19_ForeignEventRejected ==
    /\ find_by_razorpay_id("R9") = 0
    /\ credits["R9"] = 0
    /\ balance[2] = StartBalance * Hundred

\* C20: a request to /razorpay/webhook whose X-Razorpay-Signature is not the
\* HMAC-SHA256 of the body under the webhook secret is answered ok: false and
\* goes no further, for every configuration of the secret, the empty one
\* included.
C20_UnsignedRejected ==
    \A r \in RzpHooks : ~rzp[r].signed => rzp[r].pc \in {"idle", "bad_signature"}

\* C21: only funds-settled events credit. While the endpoints receive nothing
\* but events in an intermediate state (Razorpay payment.authorized, OxaPay
\* waiting or confirming), no Payment changes its status, none is inserted,
\* and no balance changes.
C21_IntermediateNoEffect ==
    /\ payments = <<oxapay_payment_doc>>
    /\ balance = [u \in Users |-> StartBalance * Hundred]

\* the body lacks the track_id or its amount is not a number
MalformedOxa(data) == data.track_id \in {None, ""} \/ ~data.amount.is_number

LacksField(d) ==
    /\ d.event \in {"payment.captured", "qr_code.credited"}
    /\ (d.payment_id = None \/ ~d.amount.is_number \/ d.user_id = 0)

\* C23: a Razorpay payment.captured or qr_code.credited event that lacks the
\* payment id, the amount or the telegram_user_id is rejected with no state
\* change: no step of its handler inserts a Payment or changes a balance.
C23_MalformedRazorpayRejected ==
    [][\A r \in RzpHooks :
          (rzp'[r] # rzp[r] /\ LacksField(rzp'[r])) => UNCHANGED <<payments, balance>>]_vars

FundingFlows == {"await_amount", "await_proof"}

\* C24: when a settlement event is applied (the record changed and the balance
\* was credited), the handler leaves the payer without a funding flow: at its
\* last step the payer's flow is not of type await_amount or await_proof.
C24_FlowClearedOnSettlement ==
    [][/\ \A h \in Hooks :
             (hook[h].pc = "notify" /\ hook'[h].pc = "done" /\ hook[h].modified)
                 => FlowType(flow'[payments[hook[h].payment].user_id]) \notin FundingFlows
       /\ \A r \in RzpHooks :
             (rzp[r].pc = "cleanup" /\ rzp'[r].pc = "done")
                 => FlowType(flow'[rzp[r].user_id]) \notin FundingFlows]_vars

\* C25: a purchase by a user whose banned flag is set when the transaction
\* reads the user fails: the step that reads changes no stock, balance or
\* Order and the purchase takes no further step, also when the flag was set
\* after the check of cb_confirm passed.
C25_BannedAtReadFails ==
    [][\A t \in Txs :
          /\ (tx[t].pc = "confirmed" /\ tx'[t].pc # "confirmed" /\ banned[tx[t].user_id]) =>
                /\ tx'[t].pc = "denied"
                /\ UNCHANGED <<stocks, balance, orders>>
          /\ tx[t].pc = "denied" => tx'[t] = tx[t]]_vars

\* cb_confirm passed its check, the ban came before the transaction read
C25_Witness ==
    /\ tx[1].pc = "denied"
    /\ banned[tx[1].user_id]
    /\ tx[1].total > 0
    /\ orders = <<>>
    /\ Available(stocks) = DOMAIN stocks

\* C26: purchase_transaction fails with the insufficient-balance error exactly
\* when the balance read inside the transaction is < total (the user not being
\* banned), and then changes no stock, balance or Order and goes no further;
\* with balance = total it commits and leaves the balance 0.
C26_InsufficientBalance ==
    [][\A t \in Txs :
          /\ (tx[t].pc = "confirmed" /\ tx'[t].pc # "confirmed") =>
                /\ tx'[t].pc = "no_balance" <=>
                      (~banned[tx[t].user_id] /\ balance[tx[t].user_id] < tx[t].total)
                /\ tx'[t].pc = "no_balance" => UNCHANGED <<stocks, balance, orders>>
          /\ tx[t].pc = "no_balance" => tx'[t] = tx[t]
          /\ (tx[t].pc = "commit" /\ tx'[t].pc = "done" /\ tx[t].seen = tx[t].total) =>
                balance'[tx[t].user_id] = 0]_vars

\* a purchase whose total was the whole balance committed
C26_Witness ==
    /\ tx[1].pc = "done"
    /\ tx[1].seen = tx[1].total
    /\ tx[1].total > 0
    /\ balance[tx[1].user_id] = 0
    /\ Len(orders) = 1

\* the qty available items with the earliest created_at
OldestAvailable(st, qty) ==
    {i \in Available(st) : Cardinality({j \in Available(st) : j < i}) < qty}

\* C27: FIFO allocation. The items a purchase selects are the qty available
\* items of the product with the earliest created_at: no available item older
\* than a selected one is left out.
C27_FifoAllocation ==
    [][\A t \in Txs :
          (tx[t].pc = "confirmed" /\ tx'[t].pc = "update")
              => SeqToSet(tx'[t].found) = OldestAvailable(stocks, tx[t].qty)]_vars

\* C28: the low-stock notification is decided only after the transaction of a
\* purchase has committed, never for a failed purchase; it is sent exactly
\* when the count of available items then is <= 3, unless the send fails; and
\* the step, failing send included, leaves stock, balances and Orders as the
\* commit left them.
C28_LowStockAfterCommit ==
    [][\A t \in Txs :
          /\ tx'[t].alert # tx[t].alert =>
                /\ tx[t].pc = "done"
                /\ tx[t].alert = None
                /\ tx'[t].pc = "returned"
                /\ tx'[t].alert \in {"sent", "failed"} <=> Cardinality(Available(stocks)) <= 3
                /\ tx'[t].alert = "skipped" <=> Cardinality(Available(stocks)) > 3
                /\ UNCHANGED <<stocks, balance, orders>>
          /\ tx'[t].pc = "returned" => tx[t].pc \in {"done", "returned"}
          /\ tx[t].pc \in {"access_denied", "denied", "no_balance", "no_stock", "conflict"} =>
                (tx'[t] = tx[t] /\ tx[t].alert = None)]_vars

\* one purchase left 3 items and its notification was sent, another one failed
\* and sent none
C28_Witness ==
    \E t1, t2 \in Txs :
        /\ tx[t1].pc = "returned" /\ tx[t1].alert = "sent"
        /\ tx[t2].pc = "conflict" /\ tx[t2].alert = None
        /\ Cardinality(Available(stocks)) = 3
        /\ Len(orders) = 1

\* C29: whenever a poll of the expiry task reads the payment's status as
\* approved, cancelled or expired, the task ends at once: that step only ends
\* the task (no status write, no countdown edit, no message deletion, no
\* notification), and the task takes no step afterwards.
C29_ExpiryStopsOnTerminal ==
    [][/\ (/\ expiry.pc = "poll"
           /\ expiry' # expiry
           /\ payments[1].status \in {"approved", "cancelled", "expired"}) =>
              /\ expiry' = [expiry EXCEPT !.pc = "stopped"]
              /\ UNCHANGED <<payments, sent>>
       /\ expiry.pc = "stopped" =>
              /\ expiry' = expiry
              /\ sent'["expired"] = sent["expired"]]_vars

\* the user cancelled, and the first poll after it ended the task
C29_Witness ==
    /\ expiry.pc = "stopped"
    /\ expiry.edits = 0
    /\ ~expiry.deleted
    /\ ~expiry.wrote
    /\ cancel.pc = "done"
    /\ payments[1].status = "cancelled"
    /\ sent["expired"] = 0
    /\ sent["cancelled"] = 1

PendingOxapay ==
    {i \in 1..Len(payments) :
        payments[i].method = "oxapay" /\ payments[i].status = "pending"}

\* C30: bounded pending. Every Payment that handle_oxapay_payment created with
\* status pending eventually leaves pending (approved, cancelled or expired),
\* the process running and its tasks being scheduled fairly, whatever step of
\* handle_oxapay_payment fails after the insert.
C30_PendingEventuallyLeaves == (PendingOxapay # {}) ~> (PendingOxapay = {})

\* the text of message m did not parse (float or Decimal raised) or its value
\* is below the minimum of the method
UnusableAmount(m) ==
    /\ m.pc # "idle"
    /\ \/ ~m.amount.ok
       \/ ~m.amount.nan /\ m.method = "razorpay" /\ m.amount.value < Hundred
       \/ ~m.amount.nan /\ m.method = "oxapay" /\ m.amount.value < 10

C32_FlowConsumedOnce == Len(payments) <= 1

\* C33: session expired clears the state. Whenever a step handler finds its
\* flow lacking a field it needs and answers 'Session expired' (await_proof
\* without payment_id, admin_prod_edit without product_id or with an unknown
\* field, admin_prod_add without step or category), the user's flow is empty
\* when the handler returns.
C33_SessionExpiredClears ==
    [][(step'.pc = "session_expired" /\ step' # step)
          => flow'[step'.user_id] = FlowNone]_vars

\* C34: one decision and one credit per Payment. However an admin's approve
\* or reject callback interleaves with an OxaPay webhook for the same Payment
\* (or with another admin callback), the balance is incremented at most once
\* for the Payment the admin reviewed.
C34_OneCreditPerPayment ==
    review.payment # 0 => credits[PaymentRef(payments[review.payment])] <= 1

\* the Payments of the manual proof flow an admin has approved and credited
ManualApproved ==
    {i \in 1..Len(payments) :
        /\ PaymentRef(payments[i]) = "manual"
        /\ review.payment = i
        /\ review.pc = "done"
        /\ payments[i].status = "approved"}

Credited ==
    {h \in Hooks : hook[h].modified /\ hook[h].pc \in {"notify", "done"}}

\* C36: the OxaPay credit comes from the stored Payment. Whatever the amount
\* field of the accepted webhook body is, the balance grows by
\* int(amount_usd * USD_TO_INR_RATE) of the amount stored on the Payment when
\* it was created: two bodies that differ only in their amount give the same
\* balance.
C36_CreditIgnoresWebhookAmount ==
    \A h \in Credited :
        balance[payments[hook[h].payment].user_id] =
            (StartBalance + payments[hook[h].payment].amount_usd * USD_TO_INR_RATE) * Hundred

\* a delivery whose amount is not the stored one has approved and credited the
\* payment
C36_Witness ==
    \E h \in Credited :
        /\ hook[h].data.amount # Number(payments[hook[h].payment].amount_usd)
        /\ hook[h].pc = "done"
        /\ credits["T1"] = 1

\* this step is the end of an event about QR code q: its countdown ran out,
\* its Cancel button was pressed, or a payment made on it was settled
AboutQr(q) ==
    \/ qr[q].pc = "pop" /\ qr'[q].pc = "expired"
    \/ ~qr[q].deleted /\ qr'[q].deleted /\ rzp' = rzp
    \/ \E r \in RzpHooks :
          /\ rzp[r].pc = "cleanup"
          /\ rzp'[r].pc = "done"
          /\ qr_code_id(rzp[r].payment_id) = q

\* C37: the pending-QR entry is removed only by its own QR code. The entry
\* RAZORPAY_STATE[user] is dropped only by a settlement, a cancel or an expiry
\* that concerns the QR code the entry holds: an event about QR code A never
\* removes the entry of a newer QR code B of the same user.
C37_EntryRemovedByOwnQr ==
    [][\A u \in Users :
          (razorpay_state[u] # None /\ razorpay_state'[u] = None)
              => AboutQr(razorpay_state[u])]_vars

\* the pending Payments of the k-th funding request
PendingOf(k) ==
    {i \in 1..Len(payments') :
        payments'[i].oxapay_track_id = Tracks[k] /\ payments'[i].status = "pending"}

\* C38: an error leaves no Payment behind. When handle_oxapay_payment answers
\* 'Error creating payment', no pending Payment of that request exists and the
\* user's flow is empty: a funding start yields either a pending Payment with
\* its message and expiry task, or an error and no Payment.
C38_ErrorLeavesNoPayment ==
    [][\A k \in Msgs :
          (funding'[k].pc = "failed" /\ funding[k].pc # "failed"
             /\ funding[k].method = "oxapay")
              => (PendingOf(k) = {} /\ flow'[funding[k].user_id] = FlowNone)]_vars

\* the USD the OxaPay payments credited to user u so far amount to, in
\* hundredths
FundedUsd(u) ==
    IF oxapay_payment_doc.user_id = u
    THEN credits[oxapay_payment_doc.oxapay_track_id] * oxapay_payment_doc.amount_usd * Hundred
    ELSE 0

\* C39: credits and charges use one unit. A user who starts at balance 0 and
\* is funded only by OxaPay payments totalling X USD never completes purchases
\* whose totals, computed from price_usd, sum to more than X USD.
C39_SameUnit ==
    \A u \in Users : SumTotal(orders, u) <= FundedUsd(u)
====
